---- MODULE Spec2Model ----
(***************************************************************************)
(* Draftwise prompt manager: the prompt version store of App.tsx (the     *)
(* prompts list, the selection, the editor form of PromptView.tsx) and    *)
(* the provider gateway of services/llmService (runPrompt).               *)
(*                                                                         *)
(* Ids are modelled as tuples: `prompt-${n}` is <<"prompt", n>>, null or  *)
(* undefined is <<>>.  Strings built by concatenation are sequences of    *)
(* their parts.  now is the last value Date.now() returned; a later read  *)
(* returns the same millisecond or a later one.                           *)
(***************************************************************************)
EXTENDS Integers, Sequences, FiniteSets, TLC

\* ------------------------------------------------------------ bounds
MaxOps == 4
MaxLineageOps == 7
MaxClock == 6

\* ------------------------------------------------------------ values
NoId == <<>>
NoResult == <<>>
PromptId(n) == <<"prompt", n>>
FolderId(n) == <<"folder", n>>
EmptyString == <<"">>

\* First value of Date.now() in the model: later than the numbers of the
\* built-in ids prompt-1 .. prompt-3.
ClockStart == 3 + 1

\* A text is the sequence of its parts: plain text, a placeholder `{{name}}`
\* or `{{ name }}`, or one of the patterns `$&` and `$$` that
\* String.prototype.replace reads in a replacement string.  The empty string
\* is <<>>.  Function(name) stands for the function Object.prototype[name].
Lit(s) == [kind |-> "text", text |-> s, spaced |-> FALSE]
Ph(name) == [kind |-> "placeholder", text |-> name, spaced |-> FALSE]
PhSpaced(name) == [kind |-> "placeholder", text |-> name, spaced |-> TRUE]
DollarAmp == [kind |-> "pattern", text |-> "$&", spaced |-> FALSE]
DollarDollar == [kind |-> "pattern", text |-> "$$", spaced |-> FALSE]
Function(name) == [kind |-> "function", text |-> name, spaced |-> FALSE]

\* Property names every plain object inherits from Object.prototype.
ObjectPrototypeNames == {"constructor", "toString", "valueOf", "hasOwnProperty"}

\* services/llmService: the providers and the built-in catalog.
Providers == {"gemini", "openai", "anthropic"}

ALL_MODELS ==
  << [id |-> "gemini-2.5-flash", name |-> "Gemini 2.5 Flash", provider |-> "gemini"],
     [id |-> "claude-3-5-sonnet-20240620", name |-> "Claude 3.5 Sonnet", provider |-> "anthropic"],
     [id |-> "claude-3-opus-20240229", name |-> "Claude 3 Opus", provider |-> "anthropic"],
     [id |-> "claude-3-haiku-20240307", name |-> "Claude 3 Haiku", provider |-> "anthropic"] >>

\* process.env.API_KEY of the build: a key or nothing.
EnvKeys == {"", "env-key"}

initialApiKeys(envKey) ==
  [p \in Providers |->
     [key |-> IF p = "gemini" THEN envKey ELSE "", status |-> "untested"]]

\* No call of validateApiKey made yet.
NotValidating ==
  [phase |-> "idle", key |-> "", response |-> "none", result |-> [kind |-> "none"]]

initialFolders ==
  << [id |-> FolderId(1), name |-> "Copywriting"],
     [id |-> FolderId(2), name |-> "Code Generation"] >>

initialPrompts ==
  << [id |-> PromptId(1), baseId |-> PromptId(1), folderId |-> FolderId(1),
      title |-> <<"Blog Post Idea Generator">>, description |-> "d1",
      systemPrompt |-> <<Lit("You are an expert copywriter.")>>,
      userPrompt |-> <<Lit("Generate 5 titles for the topic: "), Ph("topic"),
                       Lit(".")>>,
      tags |-> <<"blogging">>,
      version |-> 1, createdAt |-> ClockStart, updatedAt |-> ClockStart,
      forkedFrom |-> NoId, savedTestResult |->
        <<[id |-> <<"saved-test", 1>>, response |-> 40,
           modelId |-> "gemini-2.5-flash",
           variables |-> <<[name |-> "topic",
                            value |-> <<Lit("AI Prompt Engineering")>>]>>,
           metrics |-> [promptTokens |-> 48, completionTokens |-> 96,
                        totalTokens |-> 144, responseTime |-> 1843]]>>],
     [id |-> PromptId(2), baseId |-> PromptId(2), folderId |-> FolderId(2),
      title |-> <<"React Component Creator">>, description |-> "d2",
      systemPrompt |-> <<Lit("You are a senior frontend developer.")>>,
      userPrompt |-> <<Lit("Create a component named "), Ph("componentName"),
                       Lit(" with the props: "), Ph("propsList"), Lit(".")>>,
      tags |-> <<"react">>,
      version |-> 1, createdAt |-> ClockStart, updatedAt |-> ClockStart,
      forkedFrom |-> NoId, savedTestResult |-> NoResult],
     [id |-> PromptId(3), baseId |-> PromptId(3), folderId |-> NoId,
      title |-> <<"Email Subject Line Writer">>, description |-> "d3",
      systemPrompt |-> <<>>,
      userPrompt |-> <<Lit("Write a subject line about "), Ph("product"),
                       Lit(" that highlights: "), Ph("benefit"), Lit(".")>>,
      tags |-> <<"email">>,
      version |-> 1, createdAt |-> ClockStart, updatedAt |-> ClockStart,
      forkedFrom |-> NoId, savedTestResult |-> NoResult] >>

\* ------------------------------------------------------------ state
VARIABLES
  prompts,              \* App: the stored versions, in list order
  folders,              \* App: the folder list
  selectedPromptId,     \* App: id of the selected version or NoId
  activeView,           \* App: "editor" or "settings"
  lastActivePromptId,   \* App: selection to restore when leaving settings
  formData,             \* PromptView: <<the form's record>>, <<>> if unmounted
  now,                  \* the last value Date.now() returned
  ops,                  \* number of handler calls made so far (bounded)
  lastOp,               \* the handler that ran last and its argument
  call,                 \* runPrompt: <<the call in progress>>, <<>> if none
  result,               \* runPrompt: how the call ended
  apiKeys,              \* App: provider -> [key, status]
  openAIModels,         \* App: the model ids fetchOpenAIModels returned last
  validating,           \* per provider, its call of validateApiKey
  modelFetches,         \* keys of the calls of fetchOpenAIModels in flight
  mounted,              \* whether the mount effect of App has run
  keysStored,           \* whether localStorage holds 'llm-api-keys'
  panel,                \* PromptView: <<its test panel state>>, <<>> if unmounted
  runs,                 \* the calls of PromptView.handleRunPrompt, in order
  autoSaveTestResult,   \* App: settings.autoSaveTestResult
  comparison,           \* ComparisonView: <<its state>>, <<>> if unmounted
  compareCalls,         \* the calls of runSingleComparison, in order
  reading,              \* handleImportData: the files FileReader is reading
  everVersions          \* history: the <<baseId, version>> ever stored

listVars == <<everVersions, prompts, folders, selectedPromptId, activeView,
              lastActivePromptId, now, lastOp>>

viewVars == <<formData, panel>>

appVars == <<listVars, viewVars>>

storeVars == <<appVars, ops>>

gatewayVars == <<call, result>>

keyVars == <<apiKeys, openAIModels, validating, modelFetches, mounted,
             keysStored>>

runVars == <<runs, autoSaveTestResult>>

compareVars == <<comparison, compareCalls>>

importVars == <<reading>>

vars == <<storeVars, gatewayVars, keyVars, runVars, compareVars, importVars>>

\* ------------------------------------------------------------ helpers
\* Array.prototype.findIndex on ids, 1-based; 0 when absent.
RECURSIVE FindFrom(_, _, _)
FindFrom(ps, id, i) ==
  IF i > Len(ps) THEN 0
  ELSE IF ps[i].id = id THEN i ELSE FindFrom(ps, id, i + 1)

findIndex(ps, id) == FindFrom(ps, id, 1)

\* prompts.find(p => p.id === id), as <<p>> or <<>>.
find(ps, id) ==
  LET i == findIndex(ps, id) IN IF i = 0 THEN <<>> ELSE <<ps[i]>>

\* Array.prototype.filter is SelectSeq: it keeps the order.

\* The concatenation of a sequence of texts.
RECURSIVE Flatten(_)
Flatten(parts) ==
  IF parts = <<>> THEN <<>> ELSE Head(parts) \o Flatten(Tail(parts))

\* text.match(/{{\s*(\w+)\s*}}/g) || [] followed by
\* .map(v => v.replace(/{{\s*|\s*}}/g, '')): the names, in order.
matchNames(text) ==
  LET ms == SelectSeq(text, LAMBDA k : k.kind = "placeholder")
  IN [i \in 1..Len(ms) |-> ms[i].text]

\* [...new Set(xs)]: the first occurrence of each element, in order.
RECURSIVE newSet(_, _)
newSet(xs, acc) ==
  IF xs = <<>> THEN acc
  ELSE IF \E i \in 1..Len(acc) : acc[i] = Head(xs)
         THEN newSet(Tail(xs), acc)
         ELSE newSet(Tail(xs), Append(acc, Head(xs)))

\* promptVariables with the matches of the user text put first.
promptVariablesOf_mutant(systemPrompt, userPrompt) ==
  newSet(matchNames(userPrompt) \o matchNames(systemPrompt), <<>>)

\* PromptView.promptVariables of the two texts.
promptVariablesOf(systemPrompt, userPrompt) ==
  LET systemMatches == matchNames(systemPrompt)
      userMatches == matchNames(userPrompt)
      allMatches == systemMatches \o userMatches
  IN newSet(allMatches, <<>>)

\* vars[v] || '' on a plain object whose own entries are given (a sequence of
\* [name, value] in insertion order): the own value, else the inherited one.
getOrEmpty(entries, v) ==
  LET own == {i \in 1..Len(entries) : entries[i].name = v} IN
  IF own # {} THEN entries[CHOOSE i \in own : TRUE].value
  ELSE IF v \in ObjectPrototypeNames THEN <<Function(v)>>
  ELSE <<>>

\* newVars of the effect on [promptVariables]: newVars[v] = vars[v] || ''.
newVarsOf(names, prev) ==
  [i \in 1..Len(names) |-> [name |-> names[i], value |-> getOrEmpty(prev, names[i])]]

\* initialVars of the effect on [prompt, availableModels]:
\* initialVars[v] = savedVars?.[v] || ''.
initialVarsOf(prompt) ==
  LET names == promptVariablesOf(prompt.systemPrompt, prompt.userPrompt) IN
  IF prompt.savedTestResult = <<>>
    THEN [i \in 1..Len(names) |-> [name |-> names[i], value |-> <<>>]]
    ELSE newVarsOf(names, prompt.savedTestResult[1].variables)

\* What String.prototype.replace inserts for one match when given value:
\* `$&` is the matched text, `$$` a dollar sign; a function is called as the
\* replacer, and Object(match, ...) converts back to the matched text.
insertedFor(value, matched) ==
  Flatten([i \in 1..Len(value) |->
             CASE value[i] = DollarAmp -> <<matched>>
               [] value[i] = DollarDollar -> <<Lit("$")>>
               [] value[i].kind = "function" -> <<matched>>
               [] OTHER -> <<value[i]>>])

\* text.replace(new RegExp(`{{\\s*${key}\\s*}}`, 'g'), value)
replaceAll(text, key, value) ==
  Flatten([i \in 1..Len(text) |->
             IF text[i].kind = "placeholder" /\ text[i].text = key
               THEN insertedFor(value, text[i]) ELSE <<text[i]>>])

\* Object.entries(variables).forEach: one replaceAll per entry, in order,
\* each on the result of the one before.
RECURSIVE substitute(_, _)
substitute(text, entries) ==
  IF entries = <<>> THEN text
  ELSE substitute(replaceAll(text, Head(entries).name, Head(entries).value), Tail(entries))

\* Math.max(...xs) over a nonempty sequence of version numbers.
RECURSIVE MathMax(_)
MathMax(xs) ==
  IF Len(xs) = 1 THEN xs[1]
  ELSE LET m == MathMax(Tail(xs)) IN IF xs[1] > m THEN xs[1] ELSE m

versionsOf(ps) == [i \in 1..Len(ps) |-> ps[i].version]

\* xs.sort((a,b) => b.version - a.version)[0]: the first element with the
\* greatest version (the sort is stable).
RECURSIVE FirstMaxFrom(_, _, _)
FirstMaxFrom(ps, i, best) ==
  IF i > Len(ps) THEN best
  ELSE FirstMaxFrom(ps, i + 1,
                    IF ps[i].version > ps[best].version THEN i ELSE best)

sortDescFirst(ps) == ps[FirstMaxFrom(ps, 2, 1)]

\* App.selectedPrompt for a given list and selection, as <<p>> or <<>>.
selectedPromptOf(ps, sel) == IF sel = NoId THEN <<>> ELSE find(ps, sel)

selectedPrompt == selectedPromptOf(prompts, selectedPromptId)

\* localeCompare order of the model names that occur, ascending.
NameOrder ==
  << "Claude 3 Haiku", "Claude 3 Opus", "Claude 3.5 Sonnet", "Gemini 2.5 Flash",
     "GPT 4 Turbo", "GPT 4o" >>

localeCompare(a, b) ==
  LET ia == CHOOSE i \in 1..Len(NameOrder) : NameOrder[i] = a
      ib == CHOOSE i \in 1..Len(NameOrder) : NameOrder[i] = b
  IN ia - ib

\* The comparator of App.availableModels: provider ascending, name descending.
modelsBefore(a, b) ==
  IF a.provider # b.provider
    THEN (a.provider = "anthropic")
           \/ (a.provider = "gemini" /\ b.provider = "openai")
    ELSE localeCompare(b.name, a.name) < 0

\* Array.prototype.sort with that comparator (stable insertion).
RECURSIVE sortModels(_)
sortModels(models) ==
  IF models = <<>> THEN <<>>
  ELSE LET rest == sortModels(Tail(models))
           m == Head(models)
           k == Cardinality({i \in 1..Len(rest) : modelsBefore(rest[i], m)})
       IN SubSeq(rest, 1, k) \o <<m>> \o SubSeq(rest, k + 1, Len(rest))

\* App.availableModels for given key states and fetched OpenAI models.
availableModelsOf(keys, fetched) ==
  LET ofProvider(p) == SelectSeq(ALL_MODELS, LAMBDA m : m.provider = p)
      models ==
        (IF keys["gemini"].status = "valid" THEN ofProvider("gemini") ELSE <<>>)
        \o (IF keys["openai"].status = "valid" THEN fetched ELSE <<>>)
        \o (IF keys["anthropic"].status = "valid" THEN ofProvider("anthropic")
                                                  ELSE <<>>)
  IN sortModels(models)

\* App.availableModels in the current state.
availableModelsNow == availableModelsOf(apiKeys, openAIModels)

\* The model the effect on [prompt, availableModels] selects for the test.
selectedTestModelOf(prompt, models) ==
  LET modelIdToSelect ==
        IF prompt.savedTestResult # <<>> THEN prompt.savedTestResult[1].modelId
        ELSE IF models # <<>> THEN models[1].id ELSE ""
  IN IF \E i \in 1..Len(models) : models[i].id = modelIdToSelect
       THEN modelIdToSelect
     ELSE IF Len(models) > 0 THEN models[1].id
     ELSE ""

\* The test panel state the effect on [prompt, availableModels] leaves;
\* formIsPrompt tells that formData is the prompt object itself, as after
\* setFormData(prompt).
panelOf(prompt, models) ==
  [variables |-> initialVarsOf(prompt),
   currentTestResult |-> prompt.savedTestResult,
   isLoading |-> FALSE,
   errorMessage |-> <<>>,
   selectedTestModel |-> selectedTestModelOf(prompt, models),
   formIsPrompt |-> TRUE]

\* What rendering leaves in PromptView's form after a handler: the component
\* exists only in the editor view with a selected prompt, is keyed by the
\* prompt id, and resets its form when its prompt prop is a new object.
FormAfter(ps, sel, view, replaced) ==
  LET sp == selectedPromptOf(ps, sel) IN
  IF view # "editor" \/ sp = <<>> THEN <<>>
  ELSE IF formData = <<>> \/ sel # selectedPromptId \/ replaced THEN sp
  ELSE formData

\* The same for the test panel state; models is availableModels after the
\* handler and changed tells whether it is a new array.
PanelAfter(ps, sel, view, replaced, models, changed) ==
  LET sp == selectedPromptOf(ps, sel) IN
  IF view # "editor" \/ sp = <<>> THEN <<>>
  ELSE IF formData = <<>> \/ sel # selectedPromptId \/ replaced \/ changed
    THEN <<panelOf(sp[1], models)>>
  ELSE panel

\* A call of handleRunPrompt belongs to the PromptView instance that made
\* it: after that instance is unmounted its state setters do nothing.
RunsAfter(ps, sel, view) ==
  LET sp == selectedPromptOf(ps, sel)
      kept == view = "editor" /\ sp # <<>> /\ formData # <<>>
                /\ sel = selectedPromptId
  IN IF kept THEN runs
     ELSE [i \in 1..Len(runs) |-> [runs[i] EXCEPT !.live = FALSE]]

\* ComparisonView is rendered by PromptView and lives as long as it does:
\* a new instance starts with no model selected and no result.
newComparison ==
  [selectedModels |-> <<>>, isComparing |-> FALSE, comparisonResults |-> <<>>]

ComparisonAfter(ps, sel, view) ==
  LET sp == selectedPromptOf(ps, sel) IN
  IF view # "editor" \/ sp = <<>> THEN <<>>
  ELSE IF formData = <<>> \/ sel # selectedPromptId THEN <<newComparison>>
  ELSE comparison

\* A call of runSingleComparison belongs to the instance that made it.
CompareCallsAfter(ps, sel, view) ==
  LET sp == selectedPromptOf(ps, sel)
      kept == view = "editor" /\ sp # <<>> /\ formData # <<>>
                /\ sel = selectedPromptId
  IN IF kept THEN compareCalls
     ELSE [i \in 1..Len(compareCalls) |->
             [compareCalls[i] EXCEPT !.live = FALSE]]

\* The effect on [selectedPromptId, activeView].
LastActiveAfter(sel, view) ==
  IF view = "editor" /\ sel # NoId THEN sel ELSE lastActivePromptId

\* The lineage and number of every version of a list.
versionNumbersOf(ps) == {<<ps[i].baseId, ps[i].version>> : i \in 1..Len(ps)}

\* Common tail of every App handler: new list, selection and view, then render.
Commit(ps, sel, view, replaced) ==
  /\ prompts' = ps
  /\ everVersions' = everVersions \cup versionNumbersOf(ps)
  /\ selectedPromptId' = sel
  /\ activeView' = view
  /\ lastActivePromptId' = LastActiveAfter(sel, view)
  /\ formData' = FormAfter(ps, sel, view, replaced)
  /\ panel' = PanelAfter(ps, sel, view, replaced, availableModelsNow, FALSE)
  /\ runs' = RunsAfter(ps, sel, view)
  /\ comparison' = ComparisonAfter(ps, sel, view)
  /\ compareCalls' = CompareCallsAfter(ps, sel, view)

\* ------------------------------------------------------------ Init
Init ==
  /\ prompts = initialPrompts
  /\ folders = initialFolders
  /\ selectedPromptId = initialPrompts[1].id
  /\ activeView = "editor"
  /\ lastActivePromptId = initialPrompts[1].id
  /\ formData = <<initialPrompts[1]>>
  /\ panel = <<panelOf(initialPrompts[1], <<>>)>>
  /\ runs = <<>>
  /\ autoSaveTestResult = FALSE
  /\ comparison = <<newComparison>>
  /\ compareCalls = <<>>
  /\ reading = {}
  /\ everVersions = versionNumbersOf(initialPrompts)
  /\ now = ClockStart
  /\ ops = 0
  /\ lastOp = [op |-> "init", id |-> NoId]
  /\ call = <<>>
  /\ result = [kind |-> "none"]
  /\ \E envKey \in EnvKeys : apiKeys = initialApiKeys(envKey)
  /\ openAIModels = <<>>
  /\ validating = [p \in Providers |-> NotValidating]
  /\ modelFetches = {}
  /\ mounted = FALSE
  /\ keysStored = FALSE

\* ------------------------------------------------------------ actions
\* Every handler call counts against the bound on the length of a run.
Count(max) ==
  /\ ops < max
  /\ ops' = ops + 1
  /\ UNCHANGED <<gatewayVars, keyVars, autoSaveTestResult, importVars>>

\* What a call of Date.now() can return: the clock is monotone and has a
\* resolution of one millisecond.
DateNow == {now} \cup (IF now < MaxClock THEN {now + 1} ELSE {})

newPromptRecord(newId, t) ==
  [id |-> newId, baseId |-> newId, folderId |-> NoId,
   title |-> <<"New Prompt">>, description |-> "", systemPrompt |-> <<>>,
   userPrompt |-> <<>>, tags |-> <<>>, version |-> 1,
   createdAt |-> t, updatedAt |-> t,
   forkedFrom |-> NoId, savedTestResult |-> NoResult]

\* Sidebar "New Prompt".
handleNewPrompt ==
  /\ \E t \in DateNow :
       LET newId == PromptId(t) IN
       /\ Commit(Append(prompts, newPromptRecord(newId, t)), newId, "editor",
                 FALSE)
       /\ lastOp' = [op |-> "create", id |-> newId]
       /\ now' = t
  /\ UNCHANGED folders

\* prev.map(p => p.id === updatedPrompt.id ? updatedPrompt : p)
handleSavePrompt(ps, updatedPrompt) ==
  [i \in 1..Len(ps) |-> IF ps[i].id = updatedPrompt.id THEN updatedPrompt
                                                        ELSE ps[i]]

\* PromptView.handleSave: onSave(formData).  A form that is the stored
\* object itself is stored back as the same object: the prompt prop does not
\* change and the effect on [prompt, availableModels] does not run.
handleSave ==
  /\ formData # <<>>
  /\ LET f == formData[1] IN
     /\ Commit(handleSavePrompt(prompts, f), selectedPromptId, activeView,
               f.id = selectedPromptId /\ ~panel[1].formIsPrompt)
     /\ lastOp' = [op |-> "save", id |-> f.id]
  /\ UNCHANGED <<folders, now>>

\* The values the form's inputs can deliver, per input name.
InputValues(name) ==
  CASE name = "title" -> {<<"Edited Title">>}
    [] name = "description" -> {"dE"}
    [] name = "systemPrompt" -> {<<Lit("sE")>>}
    [] name = "userPrompt" -> {<<Lit("uE")>>}
    [] name = "folderId" -> {EmptyString, folders[2].id}

InputNames == {"title", "description", "systemPrompt", "userPrompt", "folderId"}

\* PromptView.handleInputChange: {...prev, [name]: value, updatedAt: now},
\* then the effect on [promptVariables] when one of the two texts changed.
handleInputChangeTo(name, value) ==
  /\ formData # <<>>
  /\ \E t \in DateNow :
       /\ formData' = <<[formData[1] EXCEPT ![name] = value, !.updatedAt = t]>>
       /\ now' = t
  /\ panel' =
       IF name \in {"systemPrompt", "userPrompt"} /\ value # formData[1][name]
         THEN LET promptVariables ==
                    promptVariablesOf(formData'[1].systemPrompt,
                                      formData'[1].userPrompt)
              IN <<[panel[1] EXCEPT
                      !.variables = newVarsOf(promptVariables, @),
                      !.formIsPrompt = FALSE]>>
         ELSE <<[panel[1] EXCEPT !.formIsPrompt = FALSE]>>
  /\ lastOp' = [op |-> "edit", id |-> formData[1].id]
  /\ UNCHANGED <<everVersions, prompts, folders, selectedPromptId, activeView,
                 lastActivePromptId, runs, compareVars>>

handleInputChange ==
  \E name \in InputNames : \E value \in InputValues(name) :
    handleInputChangeTo(name, value)

\* PromptView.handleTagsChange, from TagInput: a tag is added.
handleTagsChange ==
  /\ formData # <<>>
  /\ \E t \in DateNow :
       /\ formData' = <<[formData[1] EXCEPT
                           !.tags = Append(formData[1].tags, "tagE"),
                           !.updatedAt = t]>>
       /\ now' = t
  /\ panel' = <<[panel[1] EXCEPT !.formIsPrompt = FALSE]>>
  /\ lastOp' = [op |-> "edit", id |-> formData[1].id]
  /\ UNCHANGED <<everVersions, prompts, folders, selectedPromptId, activeView,
                 lastActivePromptId, runs, compareVars>>

\* The selection handleDeletePrompt sets when the selected version is deleted.
nextSelection(prevPrompts, updatedPrompts, id, promptToDelete) ==
  LET otherVersions ==
        SelectSeq(updatedPrompts, LAMBDA p : p.baseId = promptToDelete.baseId)
      promptIndex == findIndex(prevPrompts, id)
  IN IF Len(otherVersions) > 0 THEN sortDescFirst(otherVersions).id
     ELSE IF promptIndex <= Len(updatedPrompts)
            THEN updatedPrompts[promptIndex].id
          ELSE IF promptIndex - 1 >= 1
            THEN updatedPrompts[promptIndex - 1].id
          ELSE NoId

handleDeletePrompt(id) ==
  /\ lastOp' = [op |-> "deleteVersion", id |-> id]
  /\ UNCHANGED <<folders, now>>
  /\ IF find(prompts, id) = <<>>
     THEN UNCHANGED <<everVersions, prompts, selectedPromptId, activeView,
                      lastActivePromptId, viewVars, runs, compareVars>>
     ELSE LET promptToDelete == find(prompts, id)[1]
              updatedPrompts == SelectSeq(prompts, LAMBDA p : p.id # id)
              sel == IF selectedPromptId = id
                       THEN nextSelection(prompts, updatedPrompts, id,
                                          promptToDelete)
                       ELSE selectedPromptId
          IN Commit(updatedPrompts, sel, activeView, FALSE)

handleDeleteAllVersions(baseId) ==
  /\ lastOp' = [op |-> "deleteLineage", id |-> baseId]
  /\ UNCHANGED <<folders, now>>
  /\ IF \A i \in 1..Len(prompts) : prompts[i].baseId # baseId
     THEN UNCHANGED <<everVersions, prompts, selectedPromptId, activeView,
                      lastActivePromptId, viewVars, runs, compareVars>>
     ELSE LET updatedPrompts == SelectSeq(prompts, LAMBDA p : p.baseId # baseId)
              sel == IF selectedPrompt # <<>> /\ selectedPrompt[1].baseId = baseId
                       THEN IF Len(updatedPrompts) > 0
                              THEN updatedPrompts[1].id ELSE NoId
                       ELSE selectedPromptId
          IN Commit(updatedPrompts, sel, activeView, FALSE)

forkRecord_mutant(originalPrompt, newId, t) ==
  [originalPrompt EXCEPT !.id = newId, !.baseId = newId,
                         !.title = originalPrompt.title \o <<" (Fork)">>,
                         !.version = 1, !.forkedFrom = originalPrompt.id,
                         !.createdAt = t, !.updatedAt = t,
                         !.folderId = NoId]

\* The record handleForkPrompt builds from the source version.
forkRecord(originalPrompt, newId, t) ==
  [originalPrompt EXCEPT !.id = newId, !.baseId = newId,
                         !.title = originalPrompt.title \o <<" (Fork)">>,
                         !.version = 1, !.forkedFrom = originalPrompt.id,
                         !.createdAt = t, !.updatedAt = t]

handleForkPrompt(id) ==
  /\ lastOp' = [op |-> "fork", id |-> id]
  /\ UNCHANGED folders
  /\ IF find(prompts, id) = <<>>
     THEN UNCHANGED <<everVersions, prompts, selectedPromptId, activeView,
                      lastActivePromptId, viewVars, runs, compareVars, now>>
     ELSE \E t \in DateNow :
          LET originalPrompt == find(prompts, id)[1]
              newId == PromptId(t)
          IN /\ Commit(Append(prompts, forkRecord(originalPrompt, newId, t)),
                       newId, "editor", FALSE)
             /\ now' = t

nextVersion_mutant(ps, sourcePrompt) == sourcePrompt.version + 1

\* maxVersion + 1 of handleNewVersion.
nextVersion(ps, sourcePrompt) ==
  LET versions == SelectSeq(ps, LAMBDA p : p.baseId = sourcePrompt.baseId)
  IN MathMax(versionsOf(versions)) + 1

newVersionRecord(ps, sourcePrompt, t) ==
  [sourcePrompt EXCEPT !.id = PromptId(t),
                       !.version = nextVersion(ps, sourcePrompt),
                       !.createdAt = t, !.updatedAt = t]

handleNewVersion(promptId) ==
  /\ lastOp' = [op |-> "newVersion", id |-> promptId]
  /\ UNCHANGED folders
  /\ IF find(prompts, promptId) = <<>>
     THEN UNCHANGED <<everVersions, prompts, selectedPromptId, activeView,
                      lastActivePromptId, viewVars, runs, compareVars, now>>
     ELSE \E t \in DateNow :
          LET sourcePrompt == find(prompts, promptId)[1]
              newVersionPrompt == newVersionRecord(prompts, sourcePrompt, t)
          IN /\ Commit(Append(prompts, newVersionPrompt), newVersionPrompt.id,
                       activeView, FALSE)
             /\ now' = t

handleSelectPrompt(id) ==
  /\ Commit(prompts, id, "editor", FALSE)
  /\ lastOp' = [op |-> "select", id |-> id]
  /\ UNCHANGED <<folders, now>>

handleShowSettings ==
  /\ Commit(prompts, NoId, "settings", FALSE)
  /\ lastOp' = [op |-> "showSettings", id |-> NoId]
  /\ UNCHANGED <<folders, now>>

handleBackFromSettings ==
  /\ activeView = "settings"
  /\ Commit(prompts, lastActivePromptId, "editor", FALSE)
  /\ lastOp' = [op |-> "backFromSettings", id |-> NoId]
  /\ UNCHANGED <<folders, now>>

\* App.latestPrompts: one entry per baseId, in order of first appearance, the
\* first member with the greatest version.
newer_mutant(p, existing) == p.version < existing.version

\* p.version > existing.version
newer(p, existing) == p.version > existing.version

RECURSIVE latestFold(_, _, _)
latestFold(ps, i, acc) ==
  IF i > Len(ps) THEN acc
  ELSE LET p == ps[i]
           k == CHOOSE j \in 0..Len(acc) :
                  \/ (j > 0 /\ acc[j].baseId = p.baseId)
                  \/ (j = 0 /\ \A m \in 1..Len(acc) : acc[m].baseId # p.baseId)
       IN latestFold(ps, i + 1,
            IF k = 0 THEN Append(acc, p)
            ELSE IF newer(p, acc[k]) THEN [acc EXCEPT ![k] = p]
            ELSE acc)

latestPrompts(ps) == latestFold(ps, 1, <<>>)

\* App.promptVersions: the members of the selected prompt's lineage.
promptVersions ==
  IF selectedPrompt = <<>> THEN <<>>
  ELSE SelectSeq(prompts, LAMBDA p : p.baseId = selectedPrompt[1].baseId)

\* The rows of the Sidebar and the options of PromptView's version select.
SidebarIds == {latestPrompts(prompts)[i].id : i \in 1..Len(latestPrompts(prompts))}
VersionSelectIds ==
  IF formData = <<>> THEN {}
  ELSE {promptVersions[i].id : i \in 1..Len(promptVersions)}

\* Sidebar: onSelectPrompt(prompt.id).
SidebarSelect == \E id \in SidebarIds : handleSelectPrompt(id)

\* PromptView: onSelectVersion(e.target.value).
VersionSelect == \E id \in VersionSelectIds : handleSelectPrompt(id)

\* PromptView: the buttons act on the prompt the view shows.
handleConfirmDeleteVersion ==
  formData # <<>> /\ handleDeletePrompt(selectedPrompt[1].id)

handleConfirmDeleteAll ==
  formData # <<>> /\ handleDeleteAllVersions(selectedPrompt[1].baseId)

handleFork == formData # <<>> /\ handleForkPrompt(selectedPrompt[1].id)

handleNewVersionClick ==
  formData # <<>> /\ handleNewVersion(selectedPrompt[1].id)

\* ------------------------------------------------------------ gateway
\* Two revisions of the gateway are in the repository: the one the
\* components call (five-argument runPrompt, result {text, usage}) and
\* src/services/llmService.ts (four arguments, result a string), whose
\* definitions carry the suffix _Svc.  Texts are modelled by their length.
ALL_MODELS_Svc ==
  << [id |-> "gemini-2.5-flash", name |-> "Gemini 2.5 Flash", provider |-> "gemini"],
     [id |-> "gpt-4o", name |-> "GPT-4o", provider |-> "openai"],
     [id |-> "gpt-4-turbo", name |-> "GPT-4 Turbo", provider |-> "openai"],
     [id |-> "gpt-3.5-turbo", name |-> "GPT-3.5 Turbo", provider |-> "openai"],
     [id |-> "claude-3-5-sonnet-20240620", name |-> "Claude 3.5 Sonnet", provider |-> "anthropic"],
     [id |-> "claude-3-opus-20240229", name |-> "Claude 3 Opus", provider |-> "anthropic"],
     [id |-> "claude-3-haiku-20240307", name |-> "Claude 3 Haiku", provider |-> "anthropic"] >>

\* models.find(m => m.id === modelId)?.provider, "undefined" when absent.
RECURSIVE findProvider(_, _)
findProvider(models, modelId) ==
  IF models = <<>> THEN "undefined"
  ELSE IF Head(models).id = modelId THEN Head(models).provider
  ELSE findProvider(Tail(models), modelId)

getModelProvider_mutant(modelId, availableModels) ==
  findProvider(availableModels \o ALL_MODELS, modelId)

getModelProvider(modelId, availableModels) ==
  LET allKnownModels == ALL_MODELS \o availableModels
  IN findProvider(allKnownModels, modelId)

getModelProvider_Svc(modelId) == findProvider(ALL_MODELS_Svc, modelId)

\* The estimate rounded down.
estimateTokens_mutant(len) == len \div 4

\* Math.ceil(text.length / 4), 0 for the empty text.
estimateTokens(len) == IF len = 0 THEN 0 ELSE (len + 3) \div 4

\* How the provider's side of one request can end.  A fetch resolves with a
\* 2xx or a non-2xx response or rejects; the Gemini SDK resolves or throws,
\* an Error or some other value.
FetchResponses ==
  {"ok", "ok_malformed", "http_error_message", "http_error_no_message",
   "http_error_no_json", "network_error"}
SdkResponses == {"ok", "sdk_error", "sdk_throws_value"}
ResponsesOf(provider) ==
  IF provider = "gemini" THEN SdkResponses ELSE FetchResponses
FailedResponses ==
  {"http_error_message", "http_error_no_message", "http_error_no_json",
   "network_error", "sdk_error", "sdk_throws_value"}

\* The 2xx payloads: the response text length and the usage the provider
\* reports (prompt, completion, total as the provider counts it).
Payloads ==
  { [textLen |-> 9, promptTokens |-> 3, completionTokens |-> 2, totalTokens |-> 5],
    [textLen |-> 0, promptTokens |-> 1, completionTokens |-> 0, totalTokens |-> 2] }

Returned(v) == [kind |-> "returned", value |-> v]
Thrown(message) == [kind |-> "thrown", message |-> message]

\* The message of the Error the try block raises for a response.
innerMessage(provider, response) ==
  LET vendor == IF provider = "openai" THEN "OpenAI" ELSE "Anthropic" IN
  CASE response = "http_error_message" -> <<vendor, " API error: ", "vendor message">>
    [] response = "http_error_no_message" -> <<vendor, " API error: ", "Unknown error">>
    [] response = "http_error_no_json" -> <<"SyntaxError">>
    [] response = "network_error" -> <<"TypeError: Failed to fetch">>
    [] response = "ok_malformed" -> <<"TypeError: undefined property">>
    [] response = "sdk_error" -> <<"sdk message">>

\* src/services/llmService.ts reads errorData.error.message unguarded.
innerMessage_Svc(provider, response) ==
  LET vendor == IF provider = "openai" THEN "OpenAI" ELSE "Anthropic" IN
  IF response = "http_error_no_message"
    THEN <<vendor, " API error: ", "undefined">>
    ELSE innerMessage(provider, response)

\* The try/catch of runPrompt once the provider has answered.
runPromptSettle(c, response, payload) ==
  IF response = "ok" THEN
    CASE c.provider = "gemini" ->
           LET promptTokens == estimateTokens(c.userPrompt)
                                 + estimateTokens(c.systemPrompt)
               completionTokens == estimateTokens(payload.textLen)
           IN Returned([text |-> payload.textLen,
                        usage |-> [promptTokens |-> promptTokens,
                                   completionTokens |-> completionTokens,
                                   totalTokens |-> promptTokens + completionTokens]])
      [] c.provider = "openai" ->
           Returned([text |-> payload.textLen,
                     usage |-> [promptTokens |-> payload.promptTokens,
                                completionTokens |-> payload.completionTokens,
                                totalTokens |-> payload.totalTokens]])
      [] c.provider = "anthropic" ->
           Returned([text |-> payload.textLen,
                     usage |-> [promptTokens |-> payload.promptTokens,
                                completionTokens |-> payload.completionTokens,
                                totalTokens |-> payload.promptTokens
                                                  + payload.completionTokens]])
  ELSE IF response = "sdk_throws_value"
    THEN Thrown(<<"An unknown error occurred while contacting the ",
                  c.provider, " API.">>)
  ELSE Thrown(<<"An error occurred: ">> \o innerMessage(c.provider, response))

\* The same in src/services/llmService.ts: the catch block returns the text.
runPromptSettle_Svc(c, response, payload) ==
  IF response = "ok" THEN Returned(payload.textLen)
  ELSE IF response = "sdk_throws_value"
    THEN Returned(<<"An unknown error occurred while contacting the ",
                    c.provider, " API.">>)
  ELSE Returned(<<"An error occurred: ">>
                  \o innerMessage_Svc(c.provider, response))

\* Inputs of a call.
MaxKnownModels == 2
ModelIds == {"gemini-2.5-flash", "claude-3-haiku-20240307", "gpt-4o", "my-model"}
KnownModelChoices ==
  { [id |-> i, name |-> "n", provider |-> p] :
      i \in {"gemini-2.5-flash", "gpt-4o"}, p \in Providers }
RECURSIVE SeqsUpTo(_, _)
SeqsUpTo(S, n) ==
  IF n = 0 THEN {<<>>}
  ELSE LET shorter == SeqsUpTo(S, n - 1)
       IN shorter \cup {Append(q, x) : q \in shorter, x \in S}
ApiKeys == {"", "sk-key"}
TextLens == {0, 5}

Call(revision, modelId, apiKey, userPrompt, systemPrompt, availableModels, provider) ==
  [revision |-> revision, modelId |-> modelId, apiKey |-> apiKey,
   userPrompt |-> userPrompt, systemPrompt |-> systemPrompt,
   availableModels |-> availableModels, provider |-> provider,
   phase |-> "awaiting", response |-> "none"]

\* runPrompt with the key check inside the try block: the catch wraps it.
runPrompt_mutant(modelId, apiKey, userPrompt, systemPrompt, availableModels) ==
  LET found == getModelProvider(modelId, availableModels)
      provider == IF found = "undefined" THEN "openai" ELSE found
      c == Call("current", modelId, apiKey, userPrompt, systemPrompt,
                availableModels, provider)
  IN IF apiKey = ""
       THEN /\ call' = <<[c EXCEPT !.phase = "done"]>>
            /\ result' = Thrown(<<"An error occurred: ", "API key for ",
                                  provider, " is not configured.">>)
       ELSE /\ call' = <<c>>
            /\ result' = [kind |-> "none"]

\* runPrompt up to its request: provider resolution and the key check.
runPrompt(modelId, apiKey, userPrompt, systemPrompt, availableModels) ==
  LET found == getModelProvider(modelId, availableModels)
      provider == IF found = "undefined" THEN "openai" ELSE found
      c == Call("current", modelId, apiKey, userPrompt, systemPrompt,
                availableModels, provider)
  IN IF apiKey = ""
       THEN /\ call' = <<[c EXCEPT !.phase = "done"]>>
            /\ result' = Thrown(<<"API key for ", provider, " is not configured.">>)
       ELSE /\ call' = <<c>>
            /\ result' = [kind |-> "none"]

runPrompt_Svc(modelId, apiKey, userPrompt, systemPrompt) ==
  LET provider == getModelProvider_Svc(modelId)
      c == Call("svc", modelId, apiKey, userPrompt, systemPrompt, <<>>, provider)
  IN IF provider = "undefined"
       THEN /\ call' = <<[c EXCEPT !.phase = "done"]>>
            /\ result' = Thrown(<<"Unknown model: ", modelId>>)
     ELSE IF apiKey = ""
       THEN /\ call' = <<[c EXCEPT !.phase = "done"]>>
            /\ result' = Thrown(<<"API key for ", provider, " is not configured.">>)
     ELSE /\ call' = <<c>>
          /\ result' = [kind |-> "none"]

CallRunPrompt ==
  /\ call = <<>>
  /\ \E modelId \in ModelIds, apiKey \in ApiKeys, u \in TextLens, s \in TextLens,
        availableModels \in SeqsUpTo(KnownModelChoices, MaxKnownModels) :
       runPrompt(modelId, apiKey, u, s, availableModels)
  /\ UNCHANGED <<storeVars, keyVars, runVars, compareVars, importVars>>

CallRunPrompt_Svc ==
  /\ call = <<>>
  /\ \E modelId \in ModelIds, apiKey \in ApiKeys, u \in TextLens, s \in TextLens :
       runPrompt_Svc(modelId, apiKey, u, s)
  /\ UNCHANGED <<storeVars, keyVars, runVars, compareVars, importVars>>

\* The provider answers and the call settles.
ProviderResponds ==
  /\ call # <<>>
  /\ call[1].phase = "awaiting"
  /\ \E response \in ResponsesOf(call[1].provider), payload \in Payloads :
       /\ call' = <<[call[1] EXCEPT !.phase = "done", !.response = response]>>
       /\ result' = IF call[1].revision = "current"
                      THEN runPromptSettle(call[1], response, payload)
                      ELSE runPromptSettle_Svc(call[1], response, payload)
  /\ UNCHANGED <<storeVars, keyVars, runVars, compareVars, importVars>>

GatewayNext ==
  \/ CallRunPrompt
  \/ CallRunPrompt_Svc
  \/ ProviderResponds

GatewaySpec == Init /\ [][GatewayNext]_vars

\* C9 (as stated): the provider of modelId is taken from the caller's
\* knownModels first: when the id is listed there, the provider of its first
\* entry there is used, also when the built-in catalog names another.
C9_KnownModelsFirst ==
  (call # <<>> /\ call[1].revision = "current"
     /\ findProvider(call[1].availableModels, call[1].modelId) # "undefined")
  => call[1].provider = findProvider(call[1].availableModels, call[1].modelId)

\* C9 (amended): the provider of modelId is taken from the built-in catalog
\* first and only then from the caller's knownModels: when the id is in both
\* with different providers, the built-in catalog's provider is used; when it
\* is only in knownModels, the provider of its first entry there.
C9_CatalogFirst ==
  (call # <<>> /\ call[1].revision = "current") =>
    LET c == call[1]
        builtIn == {i \in 1..Len(ALL_MODELS) : ALL_MODELS[i].id = c.modelId}
        known == {i \in 1..Len(c.availableModels) :
                    c.availableModels[i].id = c.modelId}
    IN /\ builtIn # {} =>
            c.provider = ALL_MODELS[CHOOSE i \in builtIn :
                                      \A j \in builtIn : i <= j].provider
       /\ (builtIn = {} /\ known # {}) =>
            c.provider = c.availableModels[CHOOSE i \in known :
                                             \A j \in known : i <= j].provider

\* C9 witness: a request was sent for a model id that knownModels lists with
\* another provider than the built-in catalog does.
C9_Witness ==
  /\ call # <<>>
  /\ call[1].revision = "current"
  /\ call[1].phase = "done"
  /\ call[1].response = "ok"
  /\ findProvider(ALL_MODELS, call[1].modelId) = "gemini"
  /\ findProvider(call[1].availableModels, call[1].modelId) = "openai"

\* C10: a call whose provider request failed (non-2xx response or exception)
\* ends by throwing one normalized error; it never returns a result value.
C10_FailedCallsThrow ==
  (call # <<>> /\ call[1].phase = "done" /\ call[1].response \in FailedResponses)
  => /\ result.kind = "thrown"
     /\ \/ result.message[1] = "An error occurred: "
        \/ result.message[1] = "An unknown error occurred while contacting the "

\* A model id the revision of the call finds in none of its lists.
C11_Unresolved(c) ==
  IF c.revision = "current"
    THEN findProvider(ALL_MODELS \o c.availableModels, c.modelId) = "undefined"
    ELSE findProvider(ALL_MODELS_Svc, c.modelId) = "undefined"

\* C11: a call with a key whose model id is in neither knownModels nor the
\* built-in catalog does not fail for that reason: it proceeds with the
\* default provider openai and the request is sent to that provider.
C11_UnknownModelProceeds ==
  (call # <<>> /\ call[1].apiKey # "" /\ C11_Unresolved(call[1]))
  => /\ call[1].provider = "openai"
     /\ call[1].phase = "awaiting" \/ call[1].response # "none"

\* C12: a call with an empty key ends before any request is sent, by
\* throwing the configuration error itself, `API key for <provider> is not
\* configured.`, not wrapped in the `An error occurred: ` format.
C12_EmptyKeyVerbatim ==
  (call # <<>> /\ call[1].revision = "current" /\ call[1].apiKey = "")
  => /\ call[1].phase = "done"
     /\ call[1].response = "none"
     /\ result = Thrown(<<"API key for ", call[1].provider,
                          " is not configured.">>)

\* C12 witness: a call with an empty key for a model no list names (so the
\* default provider is the one reported) has ended by throwing.
C12_Witness ==
  /\ call # <<>>
  /\ call[1].revision = "current"
  /\ call[1].apiKey = ""
  /\ call[1].modelId = "my-model"
  /\ result.kind = "thrown"

\* ------------------------------------------------------------ API keys
\* Key validation: ApiKeyManager (Save & Validate), App.handleValidateKey
\* and validateApiKey of the gateway.
MaxKeyOps == 7

\* What the user can type into a key field.
Keys == {"", "k1", "k2"}

\* How the provider call of validateApiKey can end: the Gemini SDK resolves
\* or throws; a fetch resolves with response.ok true or false, or rejects.
KeyResponses(provider) ==
  IF provider = "gemini" THEN {"ok", "sdk_error"}
                         ELSE {"ok", "http_error", "network_error"}

\* validateApiKey without its try/catch.
validateApiKeySettle_mutant(provider, response) ==
  IF response \in {"sdk_error", "network_error"}
    THEN Thrown(<<response>>)
    ELSE Returned(response = "ok")

\* validateApiKey once its provider call has ended.
validateApiKeySettle(provider, response) ==
  CASE provider = "gemini" ->
         IF response = "ok" THEN Returned(TRUE) ELSE Returned(FALSE)
    [] provider \in {"openai", "anthropic"} ->
         IF response = "network_error" THEN Returned(FALSE)
                                       ELSE Returned(response = "ok")

\* validateApiKey up to its provider call: false at once for an empty key.
validateApiKey(provider, apiKey) ==
  IF apiKey = ""
    THEN [phase |-> "resolved", key |-> apiKey, response |-> "none",
          result |-> Returned(FALSE)]
    ELSE [phase |-> "awaiting", key |-> apiKey, response |-> "none",
          result |-> [kind |-> "none"]]

\* handleValidateKey that stores the key and leaves the status as it was.
handleValidateKey_mutant(provider, key) ==
  /\ apiKeys' = [apiKeys EXCEPT ![provider] = [@ EXCEPT !.key = key]]
  /\ validating' = [validating EXCEPT ![provider] = validateApiKey(provider, key)]
  /\ keysStored' = TRUE

\* handleValidateKey up to its first await.
handleValidateKey(provider, key) ==
  /\ apiKeys' = [apiKeys EXCEPT ![provider] = [key |-> key, status |-> "testing"]]
  /\ validating' = [validating EXCEPT ![provider] = validateApiKey(provider, key)]
  /\ keysStored' = TRUE

\* The second setApiKeys writing the status into every provider's entry.
handleValidateKeyResume_mutant(provider, key, res) ==
  /\ apiKeys' = [q \in Providers |->
                   [key |-> IF q = provider THEN key ELSE apiKeys[q].key,
                    status |-> IF res.value THEN "valid" ELSE "invalid"]]
  /\ modelFetches' = IF res.value /\ provider = "openai"
                       THEN modelFetches \cup {key} ELSE modelFetches

\* handleValidateKey after validateApiKey has settled with res.  A rejection
\* ends the handler there.
handleValidateKeyResume(provider, key, res) ==
  IF res.kind = "thrown"
    THEN UNCHANGED <<apiKeys, modelFetches>>
    ELSE LET isValid == res.value IN
         /\ apiKeys' = [apiKeys EXCEPT ![provider] =
                          [key |-> key,
                           status |-> IF isValid THEN "valid" ELSE "invalid"]]
         /\ modelFetches' = IF isValid /\ provider = "openai"
                              THEN modelFetches \cup {key} ELSE modelFetches

\* The render after apiKeys or openAIModels was set: availableModels is a new
\* array, so PromptView (if shown) runs its effect on [prompt, availableModels].
RenderAfterKeys(changed) ==
  IF changed
    THEN /\ formData' = FormAfter(prompts, selectedPromptId, activeView, TRUE)
         /\ panel' = PanelAfter(prompts, selectedPromptId, activeView, TRUE,
                                availableModelsOf(apiKeys', openAIModels'), TRUE)
    ELSE UNCHANGED viewVars

\* The effect App runs once on mount.
mountEffect ==
  /\ ~mounted
  /\ mounted' = TRUE
  /\ IF apiKeys["gemini"].key # "" /\ apiKeys["gemini"].status = "untested"
       THEN handleValidateKey("gemini", apiKeys["gemini"].key)
       ELSE UNCHANGED <<apiKeys, validating, keysStored>>
  /\ modelFetches' =
       IF apiKeys["openai"].key # "" /\ apiKeys["openai"].status = "valid"
            /\ openAIModels = <<>>
         THEN modelFetches \cup {apiKeys["openai"].key} ELSE modelFetches
  /\ UNCHANGED openAIModels
  /\ RenderAfterKeys(apiKeys' # apiKeys)

\* ApiKeyManager: the key of the environment is shown until keys are stored.
isGeminiEnv(provider) ==
  provider = "gemini" /\ apiKeys[provider].key # "" /\ ~keysStored

\* ApiKeyManager "Save & Validate" with keyInput typed in the settings view.
SaveAndValidate(provider) ==
  /\ mounted
  /\ activeView = "settings"
  /\ apiKeys[provider].status # "testing"
  /\ ~isGeminiEnv(provider)
  /\ \E keyInput \in Keys :
       /\ keyInput # apiKeys[provider].key
       /\ handleValidateKey(provider, keyInput)
  /\ UNCHANGED <<openAIModels, modelFetches, mounted>>
  /\ RenderAfterKeys(TRUE)

\* The provider call of validateApiKey ends and handleValidateKey goes on.
ValidationSettles(provider) ==
  /\ validating[provider].phase = "awaiting"
  /\ \E response \in KeyResponses(provider) :
       LET res == validateApiKeySettle(provider, response) IN
       /\ validating' = [validating EXCEPT ![provider] =
                           [@ EXCEPT !.phase = "done", !.response = response,
                                     !.result = res]]
       /\ handleValidateKeyResume(provider, validating[provider].key, res)
  /\ UNCHANGED <<openAIModels, mounted, keysStored>>
  /\ RenderAfterKeys(apiKeys' # apiKeys)

\* handleValidateKey goes on after a validateApiKey that made no call.
ValidationResumes(provider) ==
  /\ validating[provider].phase = "resolved"
  /\ validating' = [validating EXCEPT ![provider] = [@ EXCEPT !.phase = "done"]]
  /\ handleValidateKeyResume(provider, validating[provider].key,
                             validating[provider].result)
  /\ UNCHANGED <<openAIModels, mounted, keysStored>>
  /\ RenderAfterKeys(apiKeys' # apiKeys)

\* What fetchOpenAIModels resolves with: the chat models of the answer in
\* descending order of id, or the empty list after a failure.
FetchedModelLists ==
  { <<>>,
    << [id |-> "gpt-4o", name |-> "GPT 4o", provider |-> "openai"],
       [id |-> "gpt-4-turbo", name |-> "GPT 4 Turbo", provider |-> "openai"] >> }

\* A call of fetchOpenAIModels ends: setOpenAIModels(models).
ModelsFetched ==
  /\ \E key \in modelFetches, models \in FetchedModelLists :
       /\ modelFetches' = modelFetches \ {key}
       /\ openAIModels' = models
  /\ UNCHANGED <<apiKeys, validating, mounted, keysStored>>
  /\ RenderAfterKeys(TRUE)

KeyCount(max) ==
  /\ ops < max
  /\ ops' = ops + 1
  /\ UNCHANGED <<listVars, gatewayVars, runVars, compareVars, importVars>>

KeyNext ==
  \/ KeyCount(MaxKeyOps) /\ mountEffect
  \/ \E provider \in Providers : KeyCount(MaxKeyOps) /\ SaveAndValidate(provider)
  \/ \E provider \in Providers : KeyCount(MaxKeyOps) /\ ValidationSettles(provider)
  \/ \E provider \in Providers : KeyCount(MaxKeyOps) /\ ValidationResumes(provider)
  \/ KeyCount(MaxKeyOps) /\ ModelsFetched
  \/ Count(MaxKeyOps) /\ handleShowSettings
  \/ Count(MaxKeyOps) /\ handleBackFromSettings

KeySpec == Init /\ [][KeyNext]_vars

\* ------------------------------------------------------------ page loads
\* useLocalStorage(key, initialValue) at construction: the value stored
\* under the key when there is one, initialValue otherwise.  stored is empty
\* or holds the stored value.
useLocalStorage(stored, initialValue) ==
  IF stored # <<>> THEN stored[1] ELSE initialValue

\* The page is loaded again and App is constructed anew: the state kept by
\* useLocalStorage is read back, every useState starts from its initial
\* value, and the calls that were in flight belong to the page that is gone.
Reload ==
  LET keys == useLocalStorage(IF keysStored THEN <<apiKeys>> ELSE <<>>,
                              initialApiKeys(apiKeys["gemini"].key))
      sel == initialPrompts[1].id
      sp == selectedPromptOf(prompts, sel)
  IN
  /\ apiKeys' = keys
  /\ validating' = [p \in Providers |-> NotValidating]
  /\ modelFetches' = {}
  /\ mounted' = FALSE
  /\ selectedPromptId' = sel
  /\ activeView' = "editor"
  /\ lastActivePromptId' = sel
  /\ formData' = sp
  /\ panel' = IF sp = <<>> THEN <<>>
              ELSE <<panelOf(sp[1], availableModelsOf(keys, openAIModels))>>
  /\ runs' = <<>>
  /\ comparison' = IF sp = <<>> THEN <<>> ELSE <<newComparison>>
  /\ compareCalls' = <<>>
  /\ reading' = {}
  /\ lastOp' = [op |-> "reload", id |-> NoId]
  /\ UNCHANGED <<everVersions, prompts, folders, now, gatewayVars,
                 openAIModels, keysStored, autoSaveTestResult>>

ReloadNext ==
  \/ KeyNext
  \/ ops < MaxKeyOps /\ ops' = ops + 1 /\ Reload

ReloadSpec == Init /\ [][ReloadNext]_vars

\* C30: a provider whose stored status is testing has a validation in
\* flight, the call of validateApiKey whose end sets the status to valid or
\* invalid; no reachable state shows testing with no validation in flight.
C30_TestingInFlight ==
  \A p \in Providers :
    apiKeys[p].status = "testing" =>
      validating[p].phase \in {"awaiting", "resolved"}

\* C13: validateApiKey never throws; for an empty key it returns false and
\* makes no provider call; after a provider call it returns true exactly
\* when the call succeeded, false after a failed response or an exception.
C13_ValidateNeverThrows ==
  \A p \in Providers :
    LET v == validating[p] IN
    /\ v.result.kind # "thrown"
    /\ (v.phase # "idle" /\ v.key = "") =>
          v.response = "none" /\ v.result = Returned(FALSE)
    /\ (v.phase = "done" /\ v.key # "") =>
          /\ v.response \in KeyResponses(p)
          /\ v.result = Returned(v.response = "ok")

\* C13 witness: one validation ended after a rejected fetch, another for an
\* empty key without any provider call.
C13_Witness ==
  /\ validating["openai"].phase = "done"
  /\ validating["openai"].response = "network_error"
  /\ validating["openai"].result = Returned(FALSE)
  /\ validating["gemini"].phase = "done"
  /\ validating["gemini"].key = ""
  /\ validating["gemini"].response = "none"

C14_StatusStep ==
  \A p \in Providers :
    LET before == apiKeys[p].status
        after == apiKeys'[p].status
    IN /\ after = "untested" => before = "untested"
       /\ after \in {"valid", "invalid"} => before \in {after, "testing"}
       /\ (after = "testing" /\ before # "testing") =>
             validating'[p].phase \in {"awaiting", "resolved"}

\* C14: a provider's key status moves only untested -> testing -> valid or
\* invalid, and from any status to testing when a key is submitted: it
\* becomes valid or invalid only in the step after testing, becomes testing
\* only by a submitted key, and never returns to untested.
C14_StatusTransitions == [][C14_StatusStep]_vars

\* C14 witness: the OpenAI key was valid (its models were fetched), a new
\* key was submitted and found invalid.
C14_Witness ==
  /\ openAIModels # <<>>
  /\ apiKeys["openai"].status = "invalid"
  /\ validating["openai"].phase = "done"

\* C27: a step of one provider's validation, its start or its end, leaves
\* the entries of the other providers as they were; when it ends, the
\* provider's entry holds the validated key and the status valid exactly
\* when its own call of validateApiKey returned true; and whenever no
\* validation is in flight, each validated provider's status is valid exactly
\* when its own last validation returned true.
C27_InFlight(p) == validating[p].phase \in {"awaiting", "resolved"}

C27_Step ==
  \A p \in Providers :
    /\ (C27_InFlight(p) /\ validating'[p].phase = "done") =>
         /\ apiKeys'[p] =
              [key |-> validating[p].key,
               status |-> IF validating'[p].result = Returned(TRUE)
                            THEN "valid" ELSE "invalid"]
         /\ \A q \in Providers \ {p} : apiKeys'[q] = apiKeys[q]
    /\ (validating'[p] # validating[p] /\ C27_InFlight(p)') =>
         \A q \in Providers \ {p} : apiKeys'[q] = apiKeys[q]

C27_Settled ==
  (\A p \in Providers : ~C27_InFlight(p)) =>
    \A p \in Providers :
      validating[p].phase = "done" =>
        apiKeys[p].status = IF validating[p].result = Returned(TRUE)
                              THEN "valid" ELSE "invalid"

C27_IndependentValidations == []C27_Settled /\ [][C27_Step]_vars

\* Three validations: Gemini's ended valid, Anthropic's ended invalid while
\* OpenAI's, started before it, is still in flight.
C27_Witness ==
  /\ validating["gemini"].phase = "done"
  /\ apiKeys["gemini"].status = "valid"
  /\ validating["anthropic"].phase = "done"
  /\ apiKeys["anthropic"].status = "invalid"
  /\ validating["openai"].phase = "awaiting"
  /\ apiKeys["openai"].status = "testing"

\* ------------------------------------------------------------ test panel
\* PromptView's test panel: the variables, Run Prompt and its result.
MaxPanelOps == 5
MaxRuns == 2

\* The texts typed into the two prompt fields.
TextChoices ==
  { <<Lit("Hi "), Ph("a"), Lit(", "), PhSpaced("b"), Lit(" and "), Ph("a")>>,
    <<PhSpaced("b"), Lit(" then "), Ph("a")>>,
    <<Ph("constructor")>>,
    <<>> }

\* The values typed into a variable field.
VariableValues ==
  { <<>>, <<Lit("x")>>, <<Ph("a")>>, <<Ph("b")>>, <<DollarAmp>>, <<DollarDollar>> }

\* Number of characters of a text.
RECURSIVE length(_)
length(text) ==
  IF text = <<>> THEN 0
  ELSE LET k == Head(text)
           n == CASE k.kind = "text" -> Len(k.text)
                  [] k.kind = "placeholder" ->
                       Len(k.text) + 4 + (IF k.spaced THEN 2 ELSE 0)
                  [] OTHER -> 2
       IN n + length(Tail(text))

\* An edit of the system or the user text.
handleTextChange ==
  \E name \in {"systemPrompt", "userPrompt"} : \E value \in TextChoices :
    handleInputChangeTo(name, value)

\* PromptView.handleVariableChange from the field of a shown variable.
handleVariableChange ==
  /\ panel # <<>>
  /\ \E i \in 1..Len(panel[1].variables) : \E value \in VariableValues :
       /\ value # panel[1].variables[i].value
       /\ panel' = <<[panel[1] EXCEPT !.variables[i].value = value]>>
  /\ UNCHANGED <<listVars, formData, runs, compareVars>>

\* The provider runPrompt works with: 'openai' when the model is unknown.
providerFor(modelId, availableModels) ==
  LET found == getModelProvider(modelId, availableModels)
  IN IF found = "undefined" THEN "openai" ELSE found

\* PromptView.handleRunPrompt up to its await of runPrompt.
handleRunPrompt ==
  /\ panel # <<>>
  /\ ~panel[1].isLoading
  /\ availableModelsNow # <<>>
  /\ Len(runs) < MaxRuns
  /\ LET found == {i \in 1..Len(availableModelsNow) :
                     availableModelsNow[i].id = panel[1].selectedTestModel}
     IN IF found = {}
          THEN /\ panel' = <<[panel[1] EXCEPT !.errorMessage =
                               <<"Error: No valid model selected.">>]>>
               /\ UNCHANGED <<runs, now>>
        ELSE LET model == availableModelsNow[CHOOSE i \in found :
                                                \A j \in found : i <= j]
                 apiKey == apiKeys[model.provider].key
             IN IF apiKey = ""
                  THEN /\ panel' = <<[panel[1] EXCEPT !.errorMessage =
                                       <<"Error: API Key for ", model.provider,
                                         " is not configured.">>]>>
                       /\ UNCHANGED <<runs, now>>
                  ELSE \E startTime \in DateNow :
                         LET variables == panel[1].variables
                             processedSystemPrompt ==
                               substitute(formData[1].systemPrompt, variables)
                             processedUserPrompt ==
                               substitute(formData[1].userPrompt, variables)
                         IN /\ panel' = <<[panel[1] EXCEPT
                                             !.isLoading = TRUE,
                                             !.currentTestResult = <<>>,
                                             !.errorMessage = <<>>]>>
                            /\ runs' = Append(runs,
                                 [phase |-> "awaiting", live |-> TRUE,
                                  formData |-> formData[1],
                                  variables |-> variables,
                                  modelId |-> model.id, apiKey |-> apiKey,
                                  provider |-> providerFor(model.id,
                                                           availableModelsNow),
                                  processedSystemPrompt |-> processedSystemPrompt,
                                  processedUserPrompt |-> processedUserPrompt,
                                  autoSaveTestResult |-> autoSaveTestResult,
                                  startTime |-> startTime])
                            /\ now' = startTime
  /\ lastOp' = [op |-> "run", id |-> formData[1].id]
  /\ UNCHANGED <<everVersions, prompts, folders, selectedPromptId, activeView,
                 lastActivePromptId, formData, compareVars>>

\* runPrompt settles and handleRunPrompt goes on: the result is shown and,
\* with auto-save on, saved together with the form of the time of the click.
RunSettles(i) ==
  /\ runs[i].phase = "awaiting"
  /\ \E response \in ResponsesOf(runs[i].provider), payload \in Payloads,
        endTime \in DateNow :
       LET r == runs[i]
           c == Call("current", r.modelId, r.apiKey,
                     length(r.processedUserPrompt),
                     length(r.processedSystemPrompt), <<>>, r.provider)
           res == runPromptSettle(c, response, payload)
           ok == res.kind = "returned"
           newTestResult ==
             [id |-> <<"test", endTime>>, response |-> res.value.text,
              modelId |-> r.modelId, variables |-> r.variables,
              metrics |-> [promptTokens |-> res.value.usage.promptTokens,
                           completionTokens |-> res.value.usage.completionTokens,
                           totalTokens |-> res.value.usage.totalTokens,
                           responseTime |-> endTime - r.startTime]]
           saves == ok /\ r.autoSaveTestResult
           updatedPrompt == [r.formData EXCEPT
                               !.savedTestResult = <<newTestResult>>,
                               !.updatedAt = endTime]
           ps == IF saves THEN handleSavePrompt(prompts, updatedPrompt)
                          ELSE prompts
           replaced == saves /\ selectedPrompt # <<>>
                         /\ selectedPrompt[1].id = r.formData.id
           shown == IF ~r.live \/ panel = <<>> THEN panel
                    ELSE IF ok
                      THEN <<[panel[1] EXCEPT
                                !.currentTestResult = <<newTestResult>>,
                                !.isLoading = FALSE]>>
                    ELSE <<[panel[1] EXCEPT !.errorMessage = res.message,
                                            !.isLoading = FALSE]>>
       IN /\ prompts' = ps
          /\ everVersions' = everVersions \cup versionNumbersOf(ps)
          /\ formData' = IF replaced
                           THEN FormAfter(ps, selectedPromptId, activeView, TRUE)
                           ELSE formData
          /\ panel' = IF replaced
                        THEN PanelAfter(ps, selectedPromptId, activeView, TRUE,
                                        availableModelsNow, FALSE)
                        ELSE shown
          /\ runs' = [runs EXCEPT ![i].phase = "done"]
          /\ now' = endTime
  /\ lastOp' = [op |-> "runSettled", id |-> runs[i].formData.id]
  /\ UNCHANGED <<folders, selectedPromptId, activeView, lastActivePromptId,
                 compareVars>>

PanelCount(max) ==
  /\ ops < max
  /\ ops' = ops + 1
  /\ UNCHANGED <<gatewayVars, keyVars, autoSaveTestResult, importVars>>

PanelNext ==
  \/ KeyCount(MaxPanelOps) /\ mountEffect
  \/ KeyCount(MaxPanelOps) /\ ValidationSettles("gemini")
  \/ PanelCount(MaxPanelOps) /\ handleTextChange
  \/ PanelCount(MaxPanelOps) /\ handleVariableChange
  \/ PanelCount(MaxPanelOps) /\ handleRunPrompt
  \/ \E i \in 1..Len(runs) : PanelCount(MaxPanelOps) /\ RunSettles(i)

PanelSpec == Init /\ [][PanelNext]_vars

\* The value bound to a name in a sequence of [name, value] entries.
BoundNames(entries) == {entries[i].name : i \in 1..Len(entries)}
BoundValue(entries, name) ==
  entries[CHOOSE i \in 1..Len(entries) : entries[i].name = name].value

\* The text in which every placeholder of a bound name is replaced by the
\* bound value as it is, and everything else is kept.
Substituted(text, entries) ==
  Flatten([i \in 1..Len(text) |->
             IF text[i].kind = "placeholder" /\ text[i].text \in BoundNames(entries)
               THEN BoundValue(entries, text[i].text) ELSE <<text[i]>>])

\* C15: the texts a run sends are the form's texts in which every occurrence
\* of the placeholder of each bound name, with or without spaces inside the
\* braces, is replaced by its bound value, and every other placeholder is
\* left as it was.
C15_SubstituteAll ==
  \A i \in 1..Len(runs) :
    /\ runs[i].processedSystemPrompt
         = Substituted(runs[i].formData.systemPrompt, runs[i].variables)
    /\ runs[i].processedUserPrompt
         = Substituted(runs[i].formData.userPrompt, runs[i].variables)

\* The placeholders of other bound names inside the value bound to entries[j].
C16_Nested(entries, j) ==
  {k \in 1..Len(entries[j].value) :
     /\ entries[j].value[k].kind = "placeholder"
     /\ entries[j].value[k].text \in BoundNames(entries) \ {entries[j].name}}

\* C16: substitution is not recursive: when the value bound to a name the
\* text uses contains the placeholder of another bound name, that placeholder
\* is in the text the run sends, whatever the order of the bindings.
C16_NotRecursive ==
  \A i \in 1..Len(runs) :
    LET r == runs[i] IN
    \A j \in 1..Len(r.variables) :
      (\E k \in 1..Len(r.formData.userPrompt) :
          r.formData.userPrompt[k] \in {Ph(r.variables[j].name),
                                        PhSpaced(r.variables[j].name)})
      => \A k \in C16_Nested(r.variables, j) :
           \E n \in 1..Len(r.processedUserPrompt) :
             r.processedUserPrompt[n] = r.variables[j].value[k]

\* Position of the first occurrence of x in xs.
FirstIndex(xs, x) ==
  CHOOSE i \in 1..Len(xs) : xs[i] = x /\ \A j \in 1..(i - 1) : xs[j] # x

\* C17: the variables extracted from the system text followed by the user
\* text are the distinct placeholder names, each once, in the order of their
\* first occurrence in that concatenation.
C17_ExtractDistinctInOrder ==
  formData # <<>> =>
    LET all == matchNames(formData[1].systemPrompt)
                 \o matchNames(formData[1].userPrompt)
        names == promptVariablesOf(formData[1].systemPrompt,
                                   formData[1].userPrompt)
    IN /\ {names[i] : i \in 1..Len(names)} = {all[i] : i \in 1..Len(all)}
       /\ \A i, j \in 1..Len(names) : i # j => names[i] # names[j]
       /\ \A i, j \in 1..Len(names) :
            i < j => FirstIndex(all, names[i]) < FirstIndex(all, names[j])

\* C17 witness: the system text names one variable, the user text is
\* "Hi {{a}}, {{ b }} and {{a}}", and the variables shown are those three.
C17_Witness ==
  /\ formData # <<>>
  /\ formData[1].systemPrompt = <<Ph("constructor")>>
  /\ formData[1].userPrompt
       = <<Lit("Hi "), Ph("a"), Lit(", "), PhSpaced("b"), Lit(" and "), Ph("a")>>
  /\ promptVariablesOf(formData[1].systemPrompt, formData[1].userPrompt)
       = <<"constructor", "a", "b">>
  /\ Len(panel[1].variables) = 3

C18_EditStep ==
  (/\ formData # <<>>
   /\ formData' # <<>>
   /\ lastOp'.op = "edit"
   /\ UNCHANGED keyVars
   /\ <<formData'[1].systemPrompt, formData'[1].userPrompt>>
        # <<formData[1].systemPrompt, formData[1].userPrompt>>)
  => LET names == promptVariablesOf(formData'[1].systemPrompt,
                                    formData'[1].userPrompt)
         before == panel[1].variables
         after == panel'[1].variables
     IN /\ Len(after) = Len(names)
        /\ \A i \in 1..Len(names) :
             /\ after[i].name = names[i]
             /\ after[i].value = IF names[i] \in BoundNames(before)
                                   THEN BoundValue(before, names[i])
                                   ELSE <<>>

\* C18: after an edit of the system or user text the variables are exactly
\* the names extracted from the edited text: a name bound before keeps its
\* value, a new name is bound to the empty string, other names are dropped.
C18_RebindOnEdit == [][C18_EditStep]_vars


\* C26: when a run of the shown version settles and its result is
\* auto-saved while the form holds no unsaved edit (what the user typed since
\* the run started has been saved), the stored version keeps every field it
\* had except savedTestResult and updatedAt, and no other version changes.
C26_AutoSaveStep ==
  \A i \in 1..Len(runs) :
    (/\ runs[i].phase = "awaiting"
     /\ Len(runs') = Len(runs)
     /\ runs'[i].phase = "done"
     /\ runs[i].live
     /\ runs[i].autoSaveTestResult
     /\ panel # <<>>
     /\ panel[1].formIsPrompt
     /\ prompts' # prompts) =>
      /\ Len(prompts') = Len(prompts)
      /\ \A k \in 1..Len(prompts) :
           IF prompts[k].id = runs[i].formData.id
             THEN prompts'[k] =
                    [prompts[k] EXCEPT
                       !.savedTestResult = prompts'[k].savedTestResult,
                       !.updatedAt = prompts'[k].updatedAt]
             ELSE prompts'[k] = prompts[k]

C26_AutoSaveKeepsSave == [][C26_AutoSaveStep]_vars

\* ------------------------------------------------------------ comparison
MaxCompareOps == 12
MaxCompareCalls == 3

\* The answers a provider gives to a call of the comparison.
CompareResponses(provider) ==
  ResponsesOf(provider) \cap {"ok", "network_error", "sdk_error"}

\* An entry of comparisonResults: data holds the test result of a success
\* and the error of a failure.
ComparisonResult(modelId, status, data) ==
  [modelId |-> modelId, status |-> status, data |-> data]

\* ComparisonView.handleModelToggle from the checkbox of a listed model.
handleModelToggle(modelId) ==
  /\ comparison # <<>>
  /\ \E i \in 1..Len(availableModelsNow) : availableModelsNow[i].id = modelId
  /\ LET prev == comparison[1].selectedModels
         has == \E i \in 1..Len(prev) : prev[i] = modelId
         toggled == IF has THEN SelectSeq(prev, LAMBDA id : id # modelId)
                           ELSE Append(prev, modelId)
     IN comparison' = <<[comparison[1] EXCEPT !.selectedModels = toggled]>>
  /\ lastOp' = [op |-> "toggle", id |-> formData[1].id]
  /\ UNCHANGED <<everVersions, prompts, folders, selectedPromptId, activeView,
                 lastActivePromptId, now, viewVars, runs, compareCalls>>

\* The update a settled runSingleComparison queues, with every other entry
\* taken from the map the batch started with.
setComparisonResult_mutant(prev, modelId, entry) ==
  [i \in 1..Len(prev) |->
     IF prev[i].modelId = modelId THEN entry
     ELSE ComparisonResult(prev[i].modelId, "loading", <<>>)]

\* The update a settled runSingleComparison queues: prev with its own entry.
setComparisonResult(prev, modelId, entry) ==
  IF \E i \in 1..Len(prev) : prev[i].modelId = modelId
    THEN [i \in 1..Len(prev) |->
            IF prev[i].modelId = modelId THEN entry ELSE prev[i]]
    ELSE Append(prev, entry)

\* runSingleComparison up to its await; <<>> when the model is not listed.
runSingleComparison(modelId, userPrompt, systemPrompt, startTime) ==
  IF ~\E i \in 1..Len(availableModelsNow) : availableModelsNow[i].id = modelId
    THEN <<>>
  ELSE LET provider == providerFor(modelId, availableModelsNow)
           apiKey == apiKeys[provider].key
       IN <<[phase |-> IF apiKey = "" THEN "done" ELSE "awaiting",
             response |-> "none", live |-> TRUE,
             modelId |-> modelId, apiKey |-> apiKey, provider |-> provider,
             variables |-> panel[1].variables,
             processedSystemPrompt |-> systemPrompt,
             processedUserPrompt |-> userPrompt,
             startTime |-> startTime]>>

\* ComparisonView.handleRunComparison up to its await of Promise.all, and
\* beyond it when no call is left to wait for.
handleRunComparison ==
  /\ comparison # <<>>
  /\ ~comparison[1].isComparing
  /\ comparison[1].selectedModels # <<>>
  /\ Len(compareCalls) + Len(comparison[1].selectedModels) <= MaxCompareCalls
  /\ \E startTime \in DateNow :
       LET selectedModels == comparison[1].selectedModels
           variables == panel[1].variables
           processedSystemPrompt ==
             substitute(formData[1].systemPrompt, variables)
           processedUserPrompt ==
             substitute(formData[1].userPrompt, variables)
           callOf(i) == runSingleComparison(selectedModels[i],
                                            processedUserPrompt,
                                            processedSystemPrompt, startTime)
           started == Flatten([i \in 1..Len(selectedModels) |-> callOf(i)])
           initialResults ==
             [i \in 1..Len(selectedModels) |->
                IF callOf(i) # <<>> /\ callOf(i)[1].phase = "done"
                  THEN ComparisonResult(selectedModels[i], "error",
                         <<"API key for ", callOf(i)[1].provider,
                           " is not configured.">>)
                  ELSE ComparisonResult(selectedModels[i], "loading", <<>>)]
           waits == \E i \in 1..Len(started) : started[i].phase = "awaiting"
       IN /\ comparison' = <<[comparison[1] EXCEPT
                                !.isComparing = waits,
                                !.comparisonResults = initialResults]>>
          /\ compareCalls' = compareCalls \o started
          /\ now' = startTime
  /\ lastOp' = [op |-> "compare", id |-> formData[1].id]
  /\ UNCHANGED <<everVersions, prompts, folders, selectedPromptId, activeView,
                 lastActivePromptId, viewVars, runs>>

\* runPrompt settles for one call of runSingleComparison, which queues its
\* entry; Promise.all resolves with the last call of the batch.
CompareSettles(i) ==
  /\ compareCalls[i].phase = "awaiting"
  /\ \E response \in CompareResponses(compareCalls[i].provider),
        payload \in Payloads, endTime \in DateNow :
       LET c == compareCalls[i]
           res == runPromptSettle(
                    Call("current", c.modelId, c.apiKey,
                         length(c.processedUserPrompt),
                         length(c.processedSystemPrompt), <<>>, c.provider),
                    response, payload)
           testResult ==
             [id |-> <<"cmp", c.modelId, endTime>>,
              response |-> res.value.text,
              modelId |-> c.modelId, variables |-> c.variables,
              metrics |-> [promptTokens |-> res.value.usage.promptTokens,
                           completionTokens |-> res.value.usage.completionTokens,
                           totalTokens |-> res.value.usage.totalTokens,
                           responseTime |-> endTime - c.startTime]]
           entry == IF res.kind = "returned"
                      THEN ComparisonResult(c.modelId, "success", <<testResult>>)
                      ELSE ComparisonResult(c.modelId, "error", res.message)
           calls == [compareCalls EXCEPT ![i].phase = "done",
                                         ![i].response = response]
           waits == \E j \in 1..Len(calls) :
                      calls[j].live /\ calls[j].phase = "awaiting"
       IN /\ compareCalls' = calls
          /\ comparison' =
               IF ~c.live \/ comparison = <<>> THEN comparison
               ELSE <<[comparison[1] EXCEPT
                         !.comparisonResults =
                           setComparisonResult(@, c.modelId, entry),
                         !.isComparing = waits]>>
          /\ now' = endTime
  /\ lastOp' = [op |-> "compareSettled", id |-> compareCalls[i].modelId]
  /\ UNCHANGED <<everVersions, prompts, folders, selectedPromptId, activeView,
                 lastActivePromptId, viewVars, runs>>

\* The comparison over the models of an OpenAI key: the key is validated in
\* the settings view and the model list is fetched.
CompareNext ==
  \/ KeyCount(MaxCompareOps) /\ mountEffect
  \/ Count(MaxCompareOps) /\ handleShowSettings
  \/ KeyCount(MaxCompareOps) /\ SaveAndValidate("openai")
  \/ KeyCount(MaxCompareOps) /\ ValidationSettles("openai")
  \/ KeyCount(MaxCompareOps) /\ ModelsFetched
  \/ Count(MaxCompareOps) /\ handleBackFromSettings
  \/ \E i \in 1..Len(availableModelsNow) :
       PanelCount(MaxCompareOps) /\ handleModelToggle(availableModelsNow[i].id)
  \/ PanelCount(MaxCompareOps) /\ handleRunComparison
  \/ \E i \in 1..Len(compareCalls) :
       PanelCount(MaxCompareOps) /\ CompareSettles(i)

CompareSpec == Init /\ [][CompareNext]_vars

\* C19: whenever a comparison is not running (isComparing is false), no
\* call of its component is awaiting a provider and no entry of the result
\* map is still loading: every entry is success or error.
C19_DoneMeansSettled ==
  (comparison # <<>> /\ ~comparison[1].isComparing) =>
    /\ \A j \in 1..Len(compareCalls) :
         compareCalls[j].live => compareCalls[j].phase = "done"
    /\ \A k \in 1..Len(comparison[1].comparisonResults) :
         comparison[1].comparisonResults[k].status \in {"success", "error"}

\* C20: when a call of a running comparison settles, the entry of its own
\* model is written with the outcome of that call (success after an answer,
\* error after a failure), every other entry of the result map stays as it
\* was, and every other call stays as it was, whatever it is waiting for.
C20_SettleStep ==
  \A i \in 1..Len(compareCalls) :
    (/\ compareCalls[i].live
     /\ compareCalls[i].phase = "awaiting"
     /\ Len(compareCalls') = Len(compareCalls)
     /\ compareCalls'[i].phase = "done") =>
      LET c == compareCalls'[i]
          prev == comparison[1].comparisonResults
          next == comparison'[1].comparisonResults
      IN /\ Len(next) = Len(prev)
         /\ \E k \in 1..Len(prev) : prev[k].modelId = c.modelId
         /\ \A k \in 1..Len(prev) :
              IF prev[k].modelId = c.modelId
                THEN /\ prev[k].status = "loading"
                     /\ next[k].modelId = c.modelId
                     /\ next[k].status = IF c.response = "ok" THEN "success"
                                                              ELSE "error"
                ELSE next[k] = prev[k]
         /\ \A j \in 1..Len(compareCalls) :
              j # i => compareCalls'[j] = compareCalls[j]

C20_IndependentEntries == [][C20_SettleStep]_vars

\* A finished batch of two calls, the first answered and the second failed.
C20_Witness ==
  /\ comparison # <<>>
  /\ ~comparison[1].isComparing
  /\ Len(compareCalls) = 2
  /\ compareCalls[1].live /\ compareCalls[1].response = "ok"
  /\ compareCalls[2].live /\ compareCalls[2].response = "network_error"
  /\ Len(comparison[1].comparisonResults) = 2
  /\ comparison[1].comparisonResults[1].status = "success"
  /\ comparison[1].comparisonResults[2].status = "error"

\* ------------------------------------------------------------ test runs
MaxRunOps == 9

\* SettingsView: the checkbox "auto-save test result".
onSettingsChange ==
  /\ activeView = "settings"
  /\ autoSaveTestResult' = ~autoSaveTestResult
  /\ UNCHANGED <<appVars, gatewayVars, keyVars, runs, compareVars, importVars>>

\* PromptView.canSaveResponse: a shown result that is not the stored one.
canSaveResponse ==
  /\ panel # <<>>
  /\ ~panel[1].isLoading
  /\ panel[1].currentTestResult # <<>>
  /\ ~(/\ selectedPrompt[1].savedTestResult # <<>>
       /\ panel[1].currentTestResult[1].id
            = selectedPrompt[1].savedTestResult[1].id)

\* PromptView.handleSaveResponse from the "Save Result" button.
handleSaveResponse ==
  /\ canSaveResponse
  /\ \E t \in DateNow :
       LET updatedPrompt ==
             [formData[1] EXCEPT
                !.savedTestResult = panel[1].currentTestResult,
                !.updatedAt = t]
       IN /\ Commit(handleSavePrompt(prompts, updatedPrompt), selectedPromptId,
                    activeView, updatedPrompt.id = selectedPromptId)
          /\ now' = t
  /\ lastOp' = [op |-> "saveResponse", id |-> formData[1].id]
  /\ UNCHANGED folders

\* The editor with its test panel and the settings view.
RunNext ==
  \/ KeyCount(MaxRunOps) /\ mountEffect
  \/ KeyCount(MaxRunOps) /\ ValidationSettles("gemini")
  \/ Count(MaxRunOps) /\ handleShowSettings
  \/ ops < MaxRunOps /\ ops' = ops + 1 /\ onSettingsChange
  \/ Count(MaxRunOps) /\ handleBackFromSettings
  \/ \E name \in {"title", "description"} : \E value \in InputValues(name) :
       Count(MaxRunOps) /\ handleInputChangeTo(name, value)
  \/ Count(MaxRunOps) /\ handleSave
  \/ PanelCount(MaxRunOps) /\ handleRunPrompt
  \/ \E i \in 1..Len(runs) : PanelCount(MaxRunOps) /\ RunSettles(i)
  \/ Count(MaxRunOps) /\ handleSaveResponse

RunSpec == Init /\ [][RunNext]_vars

\* C21: at most one invocation started from the shown test panel is awaiting
\* its provider at any time.
C21_OneRunInFlight ==
  Cardinality({i \in 1..Len(runs) :
                 runs[i].live /\ runs[i].phase = "awaiting"}) <= 1

\* C29: Save Result stores the shown result as savedTestResult of the shown
\* version and refreshes its updatedAt; every other stored field of that
\* version and every other version stay as they were stored.
C29_SaveResultStep ==
  (lastOp'.op = "saveResponse" /\ ops' = ops + 1 /\ canSaveResponse) =>
    /\ Len(prompts') = Len(prompts)
    /\ \A k \in 1..Len(prompts) :
         IF prompts[k].id = formData[1].id
           THEN /\ prompts'[k].savedTestResult = panel[1].currentTestResult
                /\ prompts'[k] =
                     [prompts[k] EXCEPT
                        !.savedTestResult = prompts'[k].savedTestResult,
                        !.updatedAt = prompts'[k].updatedAt]
           ELSE prompts'[k] = prompts[k]

C29_SaveResultFrame == [][C29_SaveResultStep]_vars

\* ------------------------------------------------------------ import
MaxImportOps == 5
MaxReading == 1
MaxSelectionOps == 5

\* A field of the parsed content: its JSON type and, for an array, its items.
ArrayOf(items) == [type |-> "array", items |-> items]
NotArray(type) == [type |-> type, items |-> <<>>]

\* A chosen file: whether FileReader can read it, what JSON.parse makes of
\* its text ("syntax_error" when it throws) and, for an object, its fields.
File(readable, json, foldersField, promptsField) ==
  [readable |-> readable, json |-> json,
   folders |-> foldersField, prompts |-> promptsField]

importedPrompt ==
  [initialPrompts[2] EXCEPT !.id = PromptId(9), !.baseId = PromptId(9),
                            !.title = <<"Imported">>]

ImportFiles ==
  { File(FALSE, "syntax_error", NotArray("undefined"), NotArray("undefined")),
    File(TRUE, "syntax_error", NotArray("undefined"), NotArray("undefined")),
    File(TRUE, "null", NotArray("undefined"), NotArray("undefined")),
    File(TRUE, "number", NotArray("undefined"), NotArray("undefined")),
    File(TRUE, "object", NotArray("string"), ArrayOf(<<>>)),
    File(TRUE, "object", ArrayOf(<<>>), NotArray("undefined")),
    File(TRUE, "object", ArrayOf(<<>>), NotArray("object")),
    File(TRUE, "object", ArrayOf(<<>>), ArrayOf(<<>>)),
    File(TRUE, "object", ArrayOf(<<initialFolders[2]>>),
         ArrayOf(<<importedPrompt, initialPrompts[1]>>)) }

\* The test of handleImportData with only its second half.
isImportable_mutant(file) == file.prompts.type = "array"

\* Array.isArray(data.folders) && Array.isArray(data.prompts)
isImportable(file) ==
  file.folders.type = "array" /\ file.prompts.type = "array"

\* What reader.onload of handleImportData does with the text of a file.
importOutcome(file) ==
  IF file.json = "syntax_error"
    THEN [kind |-> "thrown", message |-> "SyntaxError"]
  ELSE IF file.json = "null"
    THEN [kind |-> "thrown", message |-> "TypeError"]
  ELSE IF isImportable(file)
    THEN [kind |-> "imported", message |-> "Data imported successfully."]
  ELSE [kind |-> "thrown",
        message |-> "Invalid data format. The file must contain 'folders' and 'prompts' arrays."]

\* SettingsView.handleFileChange: onImport(file) starts reading the file.
handleImportData ==
  /\ activeView = "settings"
  /\ Cardinality(reading) < MaxReading
  /\ \E file \in ImportFiles \ reading : reading' = reading \cup {file}
  /\ UNCHANGED <<appVars, gatewayVars, keyVars, runVars, compareVars>>

\* FileReader ends: reader.onerror for a file that cannot be read,
\* reader.onload otherwise.
FileRead ==
  \E file \in reading :
    /\ reading' = reading \ {file}
    /\ UNCHANGED <<gatewayVars, keyVars, autoSaveTestResult, now>>
    /\ IF ~file.readable
         THEN /\ lastOp' = [op |-> "import", id |-> NoId,
                            notification |->
                              [message |-> <<"Error reading the selected file.">>,
                               isError |-> TRUE]]
              /\ UNCHANGED <<everVersions, prompts, folders, selectedPromptId, activeView,
                             lastActivePromptId, viewVars, runs, compareVars>>
       ELSE LET outcome == importOutcome(file) IN
            IF outcome.kind = "thrown"
              THEN /\ lastOp' = [op |-> "import", id |-> NoId,
                                 notification |->
                                   [message |-> <<"Import failed: ",
                                                  outcome.message>>,
                                    isError |-> TRUE]]
                   /\ UNCHANGED <<everVersions, prompts, folders, selectedPromptId,
                                  activeView, lastActivePromptId, viewVars,
                                  runs, compareVars>>
            ELSE LET ps == file.prompts.items
                     sel == IF ps # <<>> THEN ps[1].id ELSE NoId
                 IN /\ folders' = file.folders.items
                    /\ Commit(ps, sel, "editor", TRUE)
                    /\ lastOp' = [op |-> "import", id |-> sel,
                                  notification |->
                                    [message |-> <<outcome.message>>,
                                     isError |-> FALSE]]

ImportCount(max) == ops < max /\ ops' = ops + 1

\* The import of the settings view, between selections and new prompts.
ImportNext ==
  \/ Count(MaxImportOps) /\ handleShowSettings
  \/ Count(MaxImportOps) /\ handleBackFromSettings
  \/ ImportCount(MaxImportOps) /\ handleImportData
  \/ ImportCount(MaxImportOps) /\ FileRead
  \/ Count(MaxImportOps) /\ handleNewPrompt
  \/ Count(MaxImportOps) /\ SidebarSelect

ImportSpec == Init /\ [][ImportNext]_vars

\* Every handler that sets the selection or the list of versions.
SelectionNext ==
  \/ Count(MaxSelectionOps) /\ handleShowSettings
  \/ Count(MaxSelectionOps) /\ handleBackFromSettings
  \/ ImportCount(MaxSelectionOps) /\ handleImportData
  \/ ImportCount(MaxSelectionOps) /\ FileRead
  \/ Count(MaxSelectionOps) /\ handleNewPrompt
  \/ Count(MaxSelectionOps) /\ handleConfirmDeleteVersion
  \/ Count(MaxSelectionOps) /\ handleConfirmDeleteAll
  \/ Count(MaxSelectionOps) /\ handleFork
  \/ Count(MaxSelectionOps) /\ handleNewVersionClick
  \/ Count(MaxSelectionOps) /\ SidebarSelect

SelectionSpec == Init /\ [][SelectionNext]_vars

\* C22: when the reading of a file ends whose content is not an object with
\* array-typed folders and prompts fields, an error is notified and folders,
\* prompts, the selected prompt id and the active view stay as they were.
C22_WellFormed(file) ==
  /\ file.readable
  /\ file.json = "object"
  /\ file.folders.type = "array"
  /\ file.prompts.type = "array"

C22_RejectStep ==
  \A file \in reading :
    (reading' = reading \ {file} /\ ~C22_WellFormed(file)) =>
      /\ lastOp'.op = "import"
      /\ lastOp'.notification.isError
      /\ UNCHANGED <<folders, prompts, selectedPromptId, activeView>>

C22_RejectedImportChangesNothing == [][C22_RejectStep]_vars

\* An import was rejected for a content without the two arrays.
C22_Witness ==
  /\ lastOp.op = "import"
  /\ lastOp.notification.isError
  /\ lastOp.notification.message =
       <<"Import failed: ",
         "Invalid data format. The file must contain 'folders' and 'prompts' arrays.">>
  /\ reading = {}
  /\ ops >= 2

\* C25: the selected prompt id is NoId or the id of a stored version.
C25_NoDanglingSelection ==
  selectedPromptId = NoId
    \/ \E i \in 1..Len(prompts) : prompts[i].id = selectedPromptId

\* ------------------------------------------------------------ folders
MaxFolderOps == 4

\* The names typed for a new folder, trimmed; the empty one is ignored.
FolderNames == {"", "Alpha", "Drafts"}

\* localeCompare order of the folder names that occur, ascending.
FolderNameOrder == <<"Alpha", "Code Generation", "Copywriting", "Drafts">>

folderBefore(a, b) ==
  LET ia == CHOOSE i \in 1..Len(FolderNameOrder) : FolderNameOrder[i] = a.name
      ib == CHOOSE i \in 1..Len(FolderNameOrder) : FolderNameOrder[i] = b.name
  IN ia < ib

\* Array.prototype.sort with (a,b) => a.name.localeCompare(b.name), stable.
RECURSIVE sortFolders(_)
sortFolders(fs) ==
  IF fs = <<>> THEN <<>>
  ELSE LET rest == sortFolders(Tail(fs))
           f == Head(fs)
           k == Cardinality({i \in 1..Len(rest) : folderBefore(rest[i], f)})
       IN SubSeq(rest, 1, k) \o <<f>> \o SubSeq(rest, k + 1, Len(rest))

\* App.handleNewFolder from the sidebar's folder form.
handleNewFolder ==
  /\ \E name \in FolderNames : \E t \in DateNow :
       IF name = ""
         THEN UNCHANGED <<folders, now>>
         ELSE /\ folders' = sortFolders(Append(folders,
                                               [id |-> FolderId(t), name |-> name]))
              /\ now' = t
  /\ lastOp' = [op |-> "newFolder", id |-> NoId]
  /\ UNCHANGED <<everVersions, prompts, selectedPromptId, activeView, lastActivePromptId,
                 viewVars, runs, compareVars>>

\* The folder select of the form: "Uncategorized" or a listed folder.
handleFolderChange ==
  \E value \in {EmptyString} \cup {folders[i].id : i \in 1..Len(folders)} :
    handleInputChangeTo("folderId", value)

\* Folders and the prompts filed in them.
FolderNext ==
  \/ Count(MaxFolderOps) /\ handleNewFolder
  \/ Count(MaxFolderOps) /\ handleNewPrompt
  \/ Count(MaxFolderOps) /\ handleFolderChange
  \/ Count(MaxFolderOps) /\ handleInputChangeTo("title", <<"Edited Title">>)
  \/ Count(MaxFolderOps) /\ handleSave
  \/ Count(MaxFolderOps) /\ handleFork
  \/ Count(MaxFolderOps) /\ handleNewVersionClick
  \/ Count(MaxFolderOps) /\ SidebarSelect

FolderSpec == Init /\ [][FolderNext]_vars

\* C23: the folderId of every stored version is NoId (null) or the id of a
\* folder of the folder list.
C23_FolderIdLive ==
  \A i \in 1..Len(prompts) :
    \/ prompts[i].folderId = NoId
    \/ \E j \in 1..Len(folders) : folders[j].id = prompts[i].folderId

\* ------------------------------------------------------------ token estimate
MaxTextLen == 130

\* estimateTokens applied to a text of some length.
estimateTokensCall ==
  /\ \E len \in 0..MaxTextLen :
       /\ call' = <<[text |-> len]>>
       /\ result' = Returned(estimateTokens(len))
  /\ UNCHANGED <<storeVars, keyVars, runVars, compareVars, importVars>>

TokenNext == estimateTokensCall

TokenSpec == Init /\ [][TokenNext]_vars

\* C24: the estimate for a text is 0 when the text is empty and otherwise the
\* least integer that is at least a quarter of its length; it is 1 for 4
\* characters and 2 for 5.
C24_CeilingOfQuarter ==
  (call # <<>> /\ DOMAIN call[1] = {"text"}) =>
    LET n == call[1].text
        v == result.value
    IN /\ result.kind = "returned"
       /\ n = 0 => v = 0
       /\ 4 * v >= n
       /\ 4 * (v - 1) < n
       /\ n = 4 => v = 1
       /\ n = 5 => v = 2

\* The estimate of a text of 5 characters.
C24_Witness ==
  /\ call # <<>>
  /\ DOMAIN call[1] = {"text"}
  /\ call[1].text = 5
  /\ result.value = 2

\* ------------------------------------------------------------ claims
PromptSet(ps) == {ps[i] : i \in 1..Len(ps)}
Lineage(ps, b) == {i \in 1..Len(ps) : ps[i].baseId = b}
SetMax(S) == CHOOSE v \in S : \A w \in S : w <= v
LineageVersions(ps, b) == {ps[i].version : i \in Lineage(ps, b)}
Added == prompts'[Len(prompts')]
AddsOne == Len(prompts') = Len(prompts) + 1
             /\ SubSeq(prompts', 1, Len(prompts)) = prompts

\* C1: no two stored versions have the same id, also when create, fork or
\* newVersion run twice within one reading of the clock.
C1_UniqueIds ==
  \A i, j \in 1..Len(prompts) : i # j => prompts[i].id # prompts[j].id

\* C2: every stored version has a version number >= 1 and no two versions
\* of one lineage (same baseId) have the same version number.
C2_VersionsUniquePerLineage ==
  /\ \A i \in 1..Len(prompts) : prompts[i].version >= 1
  /\ \A i, j \in 1..Len(prompts) :
       (i # j /\ prompts[i].baseId = prompts[j].baseId)
         => prompts[i].version # prompts[j].version

\* C3: newVersion on an existing source appends exactly one version, with the
\* source's baseId and version = (greatest version stored in that lineage) + 1,
\* whichever member is the source; a lineage at {1,2,4} yields version 5.
C3_NewVersionStep ==
  lastOp'.op = "newVersion" =>
    LET source == find(prompts, lastOp'.id)[1]
        stored == LineageVersions(prompts, source.baseId)
    IN /\ AddsOne
       /\ Added.baseId = source.baseId
       /\ Added.version = SetMax(stored) + 1
       /\ stored = {1, 2, 4} => Added.version = 5

C3_NewVersion == [][C3_NewVersionStep]_vars

\* C3 witness: a new version 5 was just made in a lineage that held {1,2,4},
\* from a source that was not the latest member.
C3_Witness ==
  /\ lastOp.op = "newVersion"
  /\ Len(prompts) > 0
  /\ prompts[Len(prompts)].version = 5
  /\ find(prompts, lastOp.id) # <<>>
  /\ find(prompts, lastOp.id)[1].version = 1
  /\ LineageVersions(prompts, prompts[Len(prompts)].baseId) = {1, 2, 4, 5}

\* C4: fork on an existing source appends exactly one version Y with
\* baseId(Y) = id(Y), an id different from the source's, version 1 and
\* forkedFrom = sourceId, and leaves the source's lineage as it was.
C4_ForkStep ==
  lastOp'.op = "fork" =>
    LET source == find(prompts, lastOp'.id)[1] IN
    /\ AddsOne
    /\ Added.baseId = Added.id
    /\ Added.id # source.id
    /\ Added.version = 1
    /\ Added.forkedFrom = source.id
    /\ Lineage(prompts', source.baseId) = Lineage(prompts, source.baseId)

C4_Fork == [][C4_ForkStep]_vars

\* C5 (as stated): the fork has title, description, systemPrompt, userPrompt,
\* tags and folderId equal to the source's.
C5_ForkCopiesAllStep ==
  lastOp'.op = "fork" =>
    LET source == find(prompts, lastOp'.id)[1] IN
    /\ Added.title = source.title
    /\ Added.description = source.description
    /\ Added.systemPrompt = source.systemPrompt
    /\ Added.userPrompt = source.userPrompt
    /\ Added.tags = source.tags
    /\ Added.folderId = source.folderId

C5_ForkCopiesAll == [][C5_ForkCopiesAllStep]_vars

\* C5 (amended): the fork has description, systemPrompt, userPrompt, tags and
\* folderId equal to the source's, and its title is the source's title
\* followed by " (Fork)".
C5_ForkCopiesStep ==
  lastOp'.op = "fork" =>
    LET source == find(prompts, lastOp'.id)[1] IN
    /\ Added.title = source.title \o <<" (Fork)">>
    /\ Added.description = source.description
    /\ Added.systemPrompt = source.systemPrompt
    /\ Added.userPrompt = source.userPrompt
    /\ Added.tags = source.tags
    /\ Added.folderId = source.folderId

C5_ForkCopies == [][C5_ForkCopiesStep]_vars

\* C5 witness: a fork of a version whose fields had been edited and saved.
C5_Witness ==
  /\ lastOp.op = "fork"
  /\ Len(prompts) > 0
  /\ LET y == prompts[Len(prompts)] IN
     /\ y.forkedFrom = lastOp.id
     /\ y.id # lastOp.id
     /\ find(prompts, lastOp.id) # <<>>
     /\ find(prompts, lastOp.id)[1] # initialPrompts[1]
     /\ find(prompts, lastOp.id)[1].folderId # NoId

\* C6: when deleteVersion removes the selected version, the selection moves
\* to the remaining member of its lineage with the highest version; with no
\* member left, to the surviving item that followed it in the list, else the
\* one that preceded it, else null.  With two versions in the lineage the
\* remaining one is selected.
C6_ReselectStep ==
  (lastOp'.op = "deleteVersion" /\ selectedPromptId = lastOp'.id) =>
    LET id == lastOp'.id
        d == CHOOSE i \in 1..Len(prompts) :
               prompts[i].id = id /\ \A j \in 1..(i - 1) : prompts[j].id # id
        b == prompts[d].baseId
        left == {p \in PromptSet(prompts') : p.baseId = b}
        after == {j \in (d + 1)..Len(prompts) : prompts[j].id # id}
        before == {j \in 1..(d - 1) : prompts[j].id # id}
    IN /\ IF left # {}
            THEN \E p \in left : /\ p.id = selectedPromptId'
                                 /\ \A q \in left : q.version <= p.version
          ELSE IF after # {}
            THEN selectedPromptId' = prompts[CHOOSE j \in after :
                                               \A k \in after : j <= k].id
          ELSE IF before # {}
            THEN selectedPromptId' = prompts[CHOOSE j \in before :
                                               \A k \in before : k <= j].id
          ELSE selectedPromptId' = NoId
       /\ Cardinality(Lineage(prompts, b)) = 2 =>
            \E p \in left : p.id = selectedPromptId'

C6_Reselect == [][C6_ReselectStep]_vars

\* C7: deleteVersion on a stored id removes exactly that version: the others
\* stay, unchanged and in the same order; deleting a non-selected version
\* leaves the selection unchanged.
C7_DeleteStep ==
  lastOp'.op = "deleteVersion" =>
    LET id == lastOp'.id
        d == findIndex(prompts, id)
    IN /\ Len(prompts') = Len(prompts) - 1
       /\ prompts' = SubSeq(prompts, 1, d - 1) \o SubSeq(prompts, d + 1, Len(prompts))
       /\ selectedPromptId # id => selectedPromptId' = selectedPromptId

C7_DeleteExactlyOne == [][C7_DeleteStep]_vars

\* C8: latestPrompts holds exactly one version for each baseId in the store
\* and no other, and that version has the greatest version number stored for
\* its baseId.
C8_LatestPerLineage ==
  LET r == latestPrompts(prompts)
      bases == {prompts[i].baseId : i \in 1..Len(prompts)}
  IN /\ \A i \in 1..Len(r) : r[i] \in PromptSet(prompts)
     /\ {r[i].baseId : i \in 1..Len(r)} = bases
     /\ \A i, j \in 1..Len(r) : i # j => r[i].baseId # r[j].baseId
     /\ \A i \in 1..Len(r) :
          r[i].version = SetMax(LineageVersions(prompts, r[i].baseId))

\* C8 witness: several lineages, one of them with three members.
C8_Witness ==
  /\ Cardinality({prompts[i].baseId : i \in 1..Len(prompts)}) >= 3
  /\ \E i \in 1..Len(prompts) :
       Cardinality(Lineage(prompts, prompts[i].baseId)) >= 3
  /\ Len(latestPrompts(prompts)) = 3


\* C28: the number newVersion gives to the version it adds is greater than
\* every number that a version of that lineage was ever stored with.
C28_NewVersionStep ==
  (lastOp'.op = "newVersion" /\ AddsOne) =>
    \A pair \in everVersions :
      pair[1] = Added.baseId => Added.version > pair[2]

C28_NoVersionReuse == [][C28_NewVersionStep]_vars

Next ==
  \/ Count(MaxOps) /\ handleNewPrompt
  \/ Count(MaxOps) /\ handleSave
  \/ Count(MaxOps) /\ handleInputChange
  \/ Count(MaxOps) /\ handleTagsChange
  \/ Count(MaxOps) /\ handleConfirmDeleteVersion
  \/ Count(MaxOps) /\ handleConfirmDeleteAll
  \/ Count(MaxOps) /\ handleFork
  \/ Count(MaxOps) /\ handleNewVersionClick
  \/ Count(MaxOps) /\ SidebarSelect
  \/ Count(MaxOps) /\ VersionSelect
  \/ Count(MaxOps) /\ handleShowSettings
  \/ Count(MaxOps) /\ handleBackFromSettings

Spec == Init /\ [][Next]_vars

\* The version operations alone, followed further: new version, version
\* select and delete of the shown version.
LineageNext ==
  \/ Count(MaxLineageOps) /\ handleNewVersionClick
  \/ Count(MaxLineageOps) /\ VersionSelect
  \/ Count(MaxLineageOps) /\ handleConfirmDeleteVersion

LineageSpec == Init /\ [][LineageNext]_vars

====
